---- MODULE Spec2Model ----
(***************************************************************************)
(* Work-stealing scheduler of src/src/chapter17_work_stealing.rs           *)
(* (demonstrate_work_stealing): a global injector, one FIFO deque per      *)
(* worker with a stealer handle for every peer, a shared `running` flag,   *)
(* worker threads running the pop / injector.steal / stealer.steal loop,   *)
(* and the main thread that submits, stores running = false and joins.     *)
(*                                                                         *)
(* Every access to shared memory (the flag, the injector, a deque) is one  *)
(* step of the thread that makes it; thread-local work between two such    *)
(* accesses belongs to the step of the access before it.                   *)
(***************************************************************************)
EXTENDS Integers, Sequences, FiniteSets

VARIABLES
    injector,       \* Injector<u64>: the tasks pushed and not yet stolen, oldest first
    local,          \* local[w]: worker w's Worker<u64> deque (new_fifo), oldest first
    running,        \* the AtomicBool `running`
    pc,             \* pc[w]: where worker thread w is in its closure
    peer,           \* peer[w]: index i of the `for (i, stealer)` loop of worker w
    held,           \* held[w]: the task worker w is sleeping on, or NoTask
    processed,      \* processed[w]: the closure's `processed`
    stolen,         \* stolen[w]: the closure's `stolen`
    mainPc,         \* where the main thread is in demonstrate_work_stealing
    next_i,         \* the `i` of `for i in 0..100`
    joined,         \* how many handles the join loop has consumed
    total,          \* the join loop's `total`
    delivered,      \* history: delivered[t] = number of times task t was handed to a worker
    atShutdown,     \* history: ids of the tasks queued when running.store(false) ran
    shutdownCalls,  \* history: number of running.store(false) executed
    sawStop,        \* history: sawStop[w] = worker w has read the flag false
    ownerUse,       \* history: ownerUse[q] = threads that called is_empty/pop on deque q
    \* -- chapter16_cancellation.rs, demonstrate_graceful_shutdown --
    gsPc,           \* where demonstrate_graceful_shutdown is
    gsSenders,      \* number of live mpsc::Sender<()> handles of the completion channel
    gsResult,       \* what wait_for_completion printed: "none", "graceful" or "timeout"
    gwPc,           \* gwPc[i]: where the spawned graceful_worker i is
    gwInbox,        \* gwInbox[i]: broadcast messages receiver i has not yet received
    gwRounds,       \* gwRounds[i]: times worker i printed "Working..."
    \* -- chapter13_cache.rs, Cache::get_or_insert_with called from main's threads --
    data,           \* Cache.data: the HashMap, key -> stored value or NoValue
    readers,        \* threads holding a read guard of the RwLock
    writer,         \* thread holding the write guard, or NoThread
    cachePc,        \* cachePc[t]: where thread t is in get_or_insert_with
    key,            \* key[t]: the key thread t was spawned with
    ret,            \* ret[t]: the value get_or_insert_with returned to thread t
    computed,       \* history: computed[k] = number of runs of the closure f for key k
    cacheLen,       \* main's cache.len() after the joins, or -1
    \* -- chapter17_atomics.rs, demonstrate_lock_free_max --
    max_value,      \* the AtomicU64 max_value
    maxPc,          \* maxPc[t]: where proposing thread t is in its loop
    current,        \* current[t]: the thread's last load of max_value
    value,          \* value[t]: the thread's element of proposed_values
    finalMax,       \* main's load of max_value after the joins, or -1
    \* -- chapter14_actor.rs, BankAccountActor and the AccountHandle of main --
    mailbox,        \* the mpsc channel of AccountMessage: sent and not yet received
    balance,        \* BankAccountActor.balance
    acctPc,         \* "running" while run() is in its loop, "closed" once it has returned
    clientPc,       \* "idle", or "wait" while withdraw()/balance() blocks on rx.recv()
    reply,          \* the reply channel of the pending call: the value sent, or NoReply
    sentLog,        \* history: every message passed to sender.send, in order
    handled,        \* history: number of messages run() has received
    lastQuery,      \* history: what the last withdraw()/balance() returned, and for which send
    \* -- chapter03_enums.rs, Order --
    status,         \* Order.status: the OrderStatus variant with its data
    items,          \* Order.items
    lastCall,       \* history: the method called last on the order
    orderResult,    \* history: what that call returned: "none", "Ok" or the Err text
    \* -- chapter10_decorator.rs, RetryNotifier::send --
    retryPc,        \* where send is: "call", "attempt", "sleep", "returned", "unreachable"
    max_attempts,   \* RetryNotifier.max_attempts
    attempt,        \* the `attempt` of `for attempt in 1..=self.max_attempts`
    innerLog,       \* history: what each self.inner.send returned, in order
    retryResult,    \* what send returned, or NoResult
    \* -- chapter11_command.rs, TextEditor --
    content,        \* TextEditor.content, a sequence of characters
    history,        \* TextEditor.history: the executed commands, oldest first
    undo_stack,     \* TextEditor.undo_stack: the undone commands, oldest first
    editorPanicked, \* TRUE once a String operation was given a range outside the content
    beforeStack,    \* history: for each command of `history`, the content before it ran
    afterStack,     \* history: for each command of `undo_stack`, the content after it ran
    lastOp,         \* history: the TextEditor method called last
    \* -- chapter14_pipeline.rs, main and the threads of spawn_stage --
    log_lines,      \* main's log_lines, each line as its '|'-separated fields
    fed,            \* number of lines main has sent on input_tx
    pipeMainPc,     \* where main is: "feed", "drop", "join", "done"
    pipeJoined,     \* number of handles main has joined
    txAlive,        \* txAlive[i]: the Sender of channel i has not been dropped
    chans,          \* chans[i]: the items sent on channel i and not yet received
    stagePc,        \* stagePc[i]: "recv", "send" or "finished", for stage i (4 = collector)
    stageItem,      \* stageItem[i]: the transformed item stage i is about to send
    collected       \* the lines the collector printed, in order

progVars == <<injector, local, running, pc, peer, held, processed, stolen,
              mainPc, next_i, joined, total>>
vars == <<injector, local, running, pc, peer, held, processed, stolen,
          mainPc, next_i, joined, total, delivered, atShutdown, shutdownCalls,
          sawStop, ownerUse,
          gsPc, gsSenders, gsResult, gwPc, gwInbox, gwRounds,
          data, readers, writer, cachePc, key, ret, computed, cacheLen,
          max_value, maxPc, current, value, finalMax,
          mailbox, balance, acctPc, clientPc, reply, sentLog, handled, lastQuery,
          status, items, lastCall, orderResult,
          retryPc, max_attempts, attempt, innerLog, retryResult,
          content, history, undo_stack, editorPanicked, beforeStack, afterStack, lastOp,
          log_lines, fed, pipeMainPc, pipeJoined, txAlive, chans, stagePc, stageItem, collected>>

\* ---- bounds of the model (the program runs 4 workers on 100 tasks) ----
num_workers == 2
NumTasks == 3
MaxShutdownCalls == 3

Workers == 0 .. (num_workers - 1)
TaskIds == 0 .. (NumTasks - 1)
NoTask == [id |-> -1, cost |-> 0]

\* `i % 10 + 1`: the u64 pushed for submission i. The id is the submission's
\* index, kept beside the value so that two tasks of equal cost stay distinct.
TaskCost(i) == (i % 10) + 1
MkTask(i) == [id |-> i, cost |-> TaskCost(i)]

RECURSIVE SumOver(_, _)
SumOver(f, S) ==
    IF S = {} THEN 0
    ELSE LET x == CHOOSE y \in S : TRUE IN f[x] + SumOver(f, S \ {x})

SeqIds(q) == { q[k].id : k \in 1 .. Len(q) }

\* ---- queue operations (crossbeam::deque) ----
\* Each returns [res, task, rest]: the Steal/Option outcome, the task taken and
\* the queue afterwards.

\* Injector::steal / Stealer::steal that leaves the task in the queue.
StealOutcomesKeep(q) ==
    IF q = <<>> THEN { [res |-> "Empty", task |-> NoTask, rest |-> q] }
    ELSE { [res |-> "Success", task |-> Head(q), rest |-> q],
           [res |-> "Retry", task |-> NoTask, rest |-> q] }

\* A steal whose lost race still advances the head: the task is gone, unseen.
StealOutcomesDrop(q) ==
    IF q = <<>> THEN { [res |-> "Empty", task |-> NoTask, rest |-> q] }
    ELSE { [res |-> "Success", task |-> Head(q), rest |-> Tail(q)],
           [res |-> "Retry", task |-> NoTask, rest |-> Tail(q)] }

\* Steal::{Empty, Success(t), Retry}: Empty on an empty queue; on a non-empty
\* one the oldest task is removed and returned, or the attempt lost a race and
\* reports Retry with the queue untouched.
StealOutcomes(q) ==
    IF q = <<>> THEN { [res |-> "Empty", task |-> NoTask, rest |-> q] }
    ELSE { [res |-> "Success", task |-> Head(q), rest |-> Tail(q)],
           [res |-> "Retry", task |-> NoTask, rest |-> q] }

\* Worker::pop on a new_fifo deque: the oldest task, or None.
PopOutcome(q) ==
    IF q = <<>> THEN [res |-> "None", task |-> NoTask, rest |-> q]
    ELSE [res |-> "Some", task |-> Head(q), rest |-> Tail(q)]

\* A push that a cleared flag turns away.
InjectorPushIfRunning(q, t) == IF running THEN Append(q, t) ELSE q

\* Injector::push
InjectorPush(q, t) == Append(q, t)

\* ---- the programs of the other chapters ----
\* Each chapter is a binary of its own; while one of them runs, the state of
\* the others stays as it was constructed.
gsVars == <<gsPc, gsSenders, gsResult, gwPc, gwInbox, gwRounds>>
cacheVars == <<data, readers, writer, cachePc, key, ret, computed, cacheLen>>
maxVars == <<max_value, maxPc, current, value, finalMax>>

\* `for i in 1..=3` of demonstrate_graceful_shutdown
NumGraceful == 3
GWorkers == 1 .. NumGraceful
\* bound on the "Working..." rounds a graceful_worker is followed through
MaxRounds == 1

\* GracefulShutdown::new(): both channels empty, one completion sender
\* (the struct's complete_tx), no worker spawned.
GsInit ==
    /\ gsPc = "spawn"
    /\ gsSenders = 1
    /\ gsResult = "none"
    /\ gwPc = [i \in GWorkers |-> "unspawned"]
    /\ gwInbox = [i \in GWorkers |-> 0]
    /\ gwRounds = [i \in GWorkers |-> 0]

\* main of chapter13_cache.rs: `keys` holds one key per spawned thread
\* (8 threads over the keys 10..40 in the program).
NumCallers == 3
Callers == 0 .. (NumCallers - 1)
KeyPool == {10, 20}
NoValue == [val |-> -1, by |-> -1]
NoThread == -1

CacheInitWith(keys) ==
    /\ data = [k \in KeyPool |-> NoValue]
    /\ readers = {}
    /\ writer = NoThread
    /\ cachePc = [t \in Callers |-> "read_lock"]
    /\ key = keys
    /\ ret = [t \in Callers |-> NoValue]
    /\ computed = [k \in KeyPool |-> 0]
    /\ cacheLen = -1
CacheInit == \E keys \in [Callers -> KeyPool] : CacheInitWith(keys)
CacheIdle == CacheInitWith([t \in Callers |-> 10])

\* demonstrate_lock_free_max: `proposed_values` holds one value per thread
\* (6 threads in the program), max_value starts at 0.
NumProposers == 3
Proposers == 0 .. (NumProposers - 1)
ValuePool == {7, 42, 100}

MaxInitWith(proposed_values) ==
    /\ max_value = 0
    /\ maxPc = [t \in Proposers |-> "load"]
    /\ current = [t \in Proposers |-> 0]
    /\ value = proposed_values
    /\ finalMax = -1
MaxInit == \E proposed_values \in [Proposers -> ValuePool] : MaxInitWith(proposed_values)
MaxIdle == MaxInitWith([t \in Proposers |-> 42])

\* AccountHandle::spawn("ACC-001"): empty channel, balance 0, actor running.
actorVars == <<mailbox, balance, acctPc, clientPc, reply, sentLog, handled, lastQuery>>
\* bound on the calls made on the handle, and the amounts they carry
MaxSent == 4
Amounts == {1, 2}
NoReply == [kind |-> "none", res |-> "", bal |-> 0]
NoQuery == [at |-> 0, kind |-> "none", res |-> "", bal |-> 0]

ActorInit ==
    /\ mailbox = <<>>
    /\ balance = 0
    /\ acctPc = "running"
    /\ clientPc = "idle"
    /\ reply = NoReply
    /\ sentLog = <<>>
    /\ handled = 0
    /\ lastQuery = NoQuery

\* Order::new(id, customer_id): no items, status Pending.
orderVars == <<status, items, lastCall, orderResult>>
\* bound on the items added, and the arguments the calls are given
MaxItems == 2
ItemPool == {[product_id |-> 101, quantity |-> 2, unit_price |-> 2999],
             [product_id |-> 102, quantity |-> 1, unit_price |-> 4999]}
Carriers == {"FedEx", "UPS"}
TrackingNumbers == {"FX123456789"}
Signatures == {<<>>, <<"John Doe">>}
Reasons == {"Changed my mind", "Out of stock"}
Pending == [tag |-> "Pending"]

OrderInit ==
    /\ status = Pending
    /\ items = <<>>
    /\ lastCall = "new"
    /\ orderResult = "none"

\* RetryNotifier::new(notifier, max_attempts, delay), send not yet called.
retryVars == <<retryPc, max_attempts, attempt, innerLog, retryResult>>
\* bound on max_attempts (a u32), and the errors the inner notifier may return
MaxAttemptsBound == 4
InnerErrors == {"timeout", "refused"}
NoResult == [tag |-> "none", err |-> ""]

RetryInitWith(n) ==
    /\ retryPc = "call"
    /\ max_attempts = n
    /\ attempt = 0
    /\ innerLog = <<>>
    /\ retryResult = NoResult
RetryInit == \E n \in 0 .. MaxAttemptsBound : RetryInitWith(n)
RetryIdle == RetryInitWith(2)

\* TextEditor::new(): empty content, empty history and undo stack.
editorVars == <<content, history, undo_stack, editorPanicked, beforeStack, afterStack, lastOp>>
\* bounds on the content length and on the commands kept in history
MaxLen == 3
MaxHistory == 3
InsertTexts == {<<"a">>, <<"b", "c">>}

EditorInit ==
    /\ content = <<>>
    /\ history = <<>>
    /\ undo_stack = <<>>
    /\ editorPanicked = FALSE
    /\ beforeStack = <<>>
    /\ afterStack = <<>>
    /\ lastOp = "new"

\* main of chapter14_pipeline.rs after the three spawn_stage calls and the
\* spawn of the collector: channel 0 is the input, channel i the output of
\* stage i (1 parser, 2 filter, 3 formatter), thread 4 the collector.
pipeVars == <<log_lines, fed, pipeMainPc, pipeJoined, txAlive, chans, stagePc, stageItem,
              collected>>
NumStages == 3
Stages == 1 .. NumStages
Collector == NumStages + 1
\* bound on the number of lines fed, and the lines they are drawn from
NumLines == 3
LinePool == {"1001|INFO|Application started",
             "1003|WARN|Config file not found, using defaults",
             "1004|ERROR|Database connection failed",
             "invalid line without separators",
             "soon|ERROR|Retry|failed"}
NoItem == [has |-> FALSE]

PipeInitWith(lines) ==
    /\ log_lines = lines
    /\ fed = 0
    /\ pipeMainPc = "feed"
    /\ pipeJoined = 0
    /\ txAlive = [i \in 0 .. NumStages |-> TRUE]
    /\ chans = [i \in 0 .. NumStages |-> <<>>]
    /\ stagePc = [i \in 1 .. Collector |-> "recv"]
    /\ stageItem = [i \in Stages |-> NoItem]
    /\ collected = <<>>
PipeInit == \E lines \in [1 .. NumLines -> LinePool] : PipeInitWith(lines)
PipeIdle == PipeInitWith([k \in 1 .. NumLines |-> "1001|INFO|Application started"])

laterVars == <<actorVars, orderVars, retryVars, editorVars, pipeVars>>
LaterIdle == ActorInit /\ OrderInit /\ RetryIdle /\ EditorInit /\ PipeIdle

otherVars == <<gsVars, cacheVars, maxVars, laterVars>>

\* ---- the work-stealing program ----
WsInit ==
    /\ injector = <<>>
    /\ local = [w \in Workers |-> <<>>]
    /\ running = TRUE
    /\ pc = [w \in Workers |-> "check"]
    /\ peer = [w \in Workers |-> 0]
    /\ held = [w \in Workers |-> NoTask]
    /\ processed = [w \in Workers |-> 0]
    /\ stolen = [w \in Workers |-> 0]
    /\ mainPc = "submit"
    /\ next_i = 0
    /\ joined = 0
    /\ total = 0
    /\ delivered = [t \in TaskIds |-> 0]
    /\ atShutdown = {}
    /\ shutdownCalls = 0
    /\ sawStop = [w \in Workers |-> FALSE]
    /\ ownerUse = [q \in Workers |-> {}]

Init == WsInit /\ GsInit /\ CacheIdle /\ MaxIdle /\ LaterIdle

\* the work-stealing program's own variables
wsVars == <<injector, local, running, pc, peer, held, processed, stolen,
            mainPc, next_i, joined, total, delivered, atShutdown, shutdownCalls,
            sawStop, ownerUse>>

mainVars == <<mainPc, next_i, joined, total, atShutdown, shutdownCalls, otherVars>>

\* ---- the worker closure ----

\* The stealer loop without the `if i != id` test.
NextPeerNoSkip(w, i) == IF i < num_workers THEN i ELSE num_workers

\* The stealers a worker visits: `for (i, stealer) in stealers.iter().enumerate()`
\* with `if i != id`. NextPeer(w, i) is the first index from i on that passes
\* the test, num_workers when the loop is over.
NextPeer(w, i) ==
    IF \E j \in Workers : j >= i /\ j # w
    THEN CHOOSE j \in Workers : j >= i /\ j # w /\ \A k \in Workers : (k >= i /\ k # w) => j <= k
    ELSE num_workers

\* `while running.load(Relaxed) ...` that also writes the flag back to true.
WorkerCheckSwap(w) ==
    /\ pc[w] = "check"
    /\ pc' = [pc EXCEPT ![w] = IF running THEN "pop" ELSE "check_empty"]
    /\ running' = TRUE
    /\ UNCHANGED <<injector, local, peer, held, processed, stolen, delivered>>
    /\ sawStop' = [sawStop EXCEPT ![w] = @ \/ ~running]
    /\ UNCHANGED ownerUse
    /\ UNCHANGED mainVars

\* A pass that starts at the injector instead of the worker's own deque.
WorkerCheckGlobalFirst(w) ==
    /\ pc[w] = "check"
    /\ pc' = [pc EXCEPT ![w] = IF running THEN "global" ELSE "check_empty"]
    /\ UNCHANGED <<injector, local, running, peer, held, processed, stolen, delivered>>
    /\ sawStop' = [sawStop EXCEPT ![w] = @ \/ ~running]
    /\ UNCHANGED ownerUse
    /\ UNCHANGED mainVars

\* A loop that also ends when it finds nothing queued: `while running && work left`.
WorkerCheckExitIdle(w) ==
    /\ pc[w] = "check"
    /\ pc' = [pc EXCEPT ![w] = IF running /\ injector # <<>> THEN "pop" ELSE "check_empty"]
    /\ UNCHANGED <<injector, local, running, peer, held, processed, stolen, delivered>>
    /\ sawStop' = [sawStop EXCEPT ![w] = @ \/ ~running]
    /\ UNCHANGED ownerUse
    /\ UNCHANGED mainVars

\* `while running.load(Relaxed) || ...`: the load of the flag.
WorkerCheck(w) ==
    /\ pc[w] = "check"
    /\ pc' = [pc EXCEPT ![w] = IF running THEN "pop" ELSE "check_empty"]
    /\ UNCHANGED <<injector, local, running, peer, held, processed, stolen, delivered>>
    /\ sawStop' = [sawStop EXCEPT ![w] = @ \/ ~running]
    /\ UNCHANGED ownerUse
    /\ UNCHANGED mainVars

\* The loop condition with the negation of is_empty dropped.
WorkerCheckEmptyNeg(w) ==
    /\ pc[w] = "check_empty"
    /\ pc' = [pc EXCEPT ![w] = IF local[w] = <<>> THEN "pop" ELSE "done"]
    /\ UNCHANGED <<injector, local, running, peer, held, processed, stolen, delivered>>
    /\ UNCHANGED sawStop
    /\ ownerUse' = [ownerUse EXCEPT ![w] = @ \cup {w}]
    /\ UNCHANGED mainVars

\* A loop condition that also keeps going while the injector holds a task:
\* `running || !worker.is_empty() || !injector.is_empty()`.
WorkerCheckEmptyDrainAll(w) ==
    /\ pc[w] = "check_empty"
    /\ pc' = [pc EXCEPT ![w] = IF local[w] # <<>> \/ injector # <<>> THEN "pop" ELSE "done"]
    /\ UNCHANGED <<injector, local, running, peer, held, processed, stolen, delivered>>
    /\ UNCHANGED sawStop
    /\ ownerUse' = [ownerUse EXCEPT ![w] = @ \cup {w}]
    /\ UNCHANGED mainVars

\* A returned worker that starts over when the injector holds a task again.
WorkerCheckEmptyRevive(w) ==
    /\ pc[w] \in {"check_empty", "done"}
    /\ pc' = [pc EXCEPT ![w] =
                IF local[w] # <<>> \/ (pc[w] = "done" /\ injector # <<>>) THEN "pop" ELSE "done"]
    /\ UNCHANGED <<injector, local, running, peer, held, processed, stolen, delivered>>
    /\ UNCHANGED sawStop
    /\ ownerUse' = [ownerUse EXCEPT ![w] = @ \cup {w}]
    /\ UNCHANGED mainVars

\* `... || !worker.is_empty()`, evaluated when the flag was read false; on an
\* empty deque the loop ends and the closure returns `processed`.
WorkerCheckEmpty(w) ==
    /\ pc[w] = "check_empty"
    /\ pc' = [pc EXCEPT ![w] = IF local[w] # <<>> THEN "pop" ELSE "done"]
    /\ UNCHANGED <<injector, local, running, peer, held, processed, stolen, delivered>>
    /\ UNCHANGED sawStop
    /\ ownerUse' = [ownerUse EXCEPT ![w] = @ \cup {w}]
    /\ UNCHANGED mainVars

\* A pass that goes from the empty local deque straight to the stealers,
\* leaving the injector out.
WorkerLocalPopSkipGlobal(w) ==
    /\ pc[w] = "pop"
    /\ LET o == PopOutcome(local[w]) IN
        /\ local' = [local EXCEPT ![w] = o.rest]
        /\ IF o.res = "Some"
           THEN /\ processed' = [processed EXCEPT ![w] = @ + 1]
                /\ held' = [held EXCEPT ![w] = o.task]
                /\ delivered' = [delivered EXCEPT ![o.task.id] = @ + 1]
                /\ pc' = [pc EXCEPT ![w] = "exec"]
                /\ peer' = peer
           ELSE /\ UNCHANGED <<processed, held, delivered>>
                /\ IF NextPeer(w, 0) < num_workers
                   THEN /\ pc' = [pc EXCEPT ![w] = "peers"]
                        /\ peer' = [peer EXCEPT ![w] = NextPeer(w, 0)]
                   ELSE /\ pc' = [pc EXCEPT ![w] = "backoff"]
                        /\ peer' = peer
    /\ UNCHANGED <<injector, running, stolen>>
    /\ UNCHANGED sawStop
    /\ ownerUse' = [ownerUse EXCEPT ![w] = @ \cup {w}]
    /\ UNCHANGED mainVars

\* One Worker handle shared by every thread: each thread pops deque 0.
WorkerLocalPopShared(w) ==
    /\ pc[w] = "pop"
    /\ LET o == PopOutcome(local[0]) IN
        /\ local' = [local EXCEPT ![0] = o.rest]
        /\ IF o.res = "Some"
           THEN /\ processed' = [processed EXCEPT ![w] = @ + 1]
                /\ held' = [held EXCEPT ![w] = o.task]
                /\ delivered' = [delivered EXCEPT ![o.task.id] = @ + 1]
                /\ pc' = [pc EXCEPT ![w] = "exec"]
           ELSE /\ UNCHANGED <<processed, held, delivered>>
                /\ pc' = [pc EXCEPT ![w] = "global"]
    /\ UNCHANGED <<injector, running, peer, stolen>>
    /\ UNCHANGED sawStop
    /\ ownerUse' = [ownerUse EXCEPT ![0] = @ \cup {w}]
    /\ UNCHANGED mainVars

\* `if let Some(task) = worker.pop() { processed += 1; sleep; continue }`
WorkerLocalPop(w) ==
    /\ pc[w] = "pop"
    /\ LET o == PopOutcome(local[w]) IN
        /\ local' = [local EXCEPT ![w] = o.rest]
        /\ IF o.res = "Some"
           THEN /\ processed' = [processed EXCEPT ![w] = @ + 1]
                /\ held' = [held EXCEPT ![w] = o.task]
                /\ delivered' = [delivered EXCEPT ![o.task.id] = @ + 1]
                /\ pc' = [pc EXCEPT ![w] = "exec"]
           ELSE /\ UNCHANGED <<processed, held, delivered>>
                /\ pc' = [pc EXCEPT ![w] = "global"]
    /\ UNCHANGED <<injector, running, peer, stolen>>
    /\ UNCHANGED sawStop
    /\ ownerUse' = [ownerUse EXCEPT ![w] = @ \cup {w}]
    /\ UNCHANGED mainVars

\* injector.steal() as a blocking take: waits until a task is there.
WorkerGlobalStealBlocking(w) ==
    /\ pc[w] = "global"
    /\ injector # <<>>
    /\ processed' = [processed EXCEPT ![w] = @ + 1]
    /\ held' = [held EXCEPT ![w] = Head(injector)]
    /\ delivered' = [delivered EXCEPT ![Head(injector).id] = @ + 1]
    /\ injector' = Tail(injector)
    /\ pc' = [pc EXCEPT ![w] = "exec"]
    /\ UNCHANGED <<local, running, peer, stolen>>
    /\ UNCHANGED <<sawStop, ownerUse>>
    /\ UNCHANGED mainVars

\* An injector steal that is counted as stolen too.
WorkerGlobalStealCountsStolen(w) ==
    /\ pc[w] = "global"
    /\ \E o \in StealOutcomes(injector) :
        /\ injector' = o.rest
        /\ IF o.res = "Success"
           THEN /\ processed' = [processed EXCEPT ![w] = @ + 1]
                /\ stolen' = [stolen EXCEPT ![w] = @ + 1]
                /\ held' = [held EXCEPT ![w] = o.task]
                /\ delivered' = [delivered EXCEPT ![o.task.id] = @ + 1]
                /\ pc' = [pc EXCEPT ![w] = "exec"]
                /\ peer' = peer
           ELSE /\ UNCHANGED <<processed, stolen, held, delivered>>
                /\ IF NextPeer(w, 0) < num_workers
                   THEN /\ pc' = [pc EXCEPT ![w] = "peers"]
                        /\ peer' = [peer EXCEPT ![w] = NextPeer(w, 0)]
                   ELSE /\ pc' = [pc EXCEPT ![w] = "backoff"]
                        /\ peer' = peer
    /\ UNCHANGED <<local, running>>
    /\ UNCHANGED <<sawStop, ownerUse>>
    /\ UNCHANGED mainVars

\* An injector steal whose count goes to worker 0's counter, whoever stole.
WorkerGlobalStealSharedCounter(w) ==
    /\ pc[w] = "global"
    /\ \E o \in StealOutcomes(injector) :
        /\ injector' = o.rest
        /\ IF o.res = "Success"
           THEN /\ processed' = [processed EXCEPT ![0] = @ + 1]
                /\ held' = [held EXCEPT ![w] = o.task]
                /\ delivered' = [delivered EXCEPT ![o.task.id] = @ + 1]
                /\ pc' = [pc EXCEPT ![w] = "exec"]
                /\ peer' = peer
           ELSE /\ UNCHANGED <<processed, held, delivered>>
                /\ IF NextPeer(w, 0) < num_workers
                   THEN /\ pc' = [pc EXCEPT ![w] = "peers"]
                        /\ peer' = [peer EXCEPT ![w] = NextPeer(w, 0)]
                   ELSE /\ pc' = [pc EXCEPT ![w] = "backoff"]
                        /\ peer' = peer
    /\ UNCHANGED <<local, running, stolen>>
    /\ UNCHANGED <<sawStop, ownerUse>>
    /\ UNCHANGED mainVars

\* `injector.steal_batch_and_pop(&worker)`: the oldest task is returned and the
\* next one, if any, is moved into the worker's own deque.
WorkerGlobalStealBatch(w) ==
    /\ pc[w] = "global"
    /\ \E o \in StealOutcomes(injector) :
        /\ IF o.res = "Success"
           THEN /\ processed' = [processed EXCEPT ![w] = @ + 1]
                /\ held' = [held EXCEPT ![w] = o.task]
                /\ delivered' = [delivered EXCEPT ![o.task.id] = @ + 1]
                /\ pc' = [pc EXCEPT ![w] = "exec"]
                /\ peer' = peer
                /\ IF o.rest # <<>>
                   THEN /\ injector' = Tail(o.rest)
                        /\ local' = [local EXCEPT ![w] = Append(@, Head(o.rest))]
                   ELSE /\ injector' = o.rest
                        /\ local' = local
           ELSE /\ UNCHANGED <<processed, held, delivered, local>>
                /\ injector' = o.rest
                /\ IF NextPeer(w, 0) < num_workers
                   THEN /\ pc' = [pc EXCEPT ![w] = "peers"]
                        /\ peer' = [peer EXCEPT ![w] = NextPeer(w, 0)]
                   ELSE /\ pc' = [pc EXCEPT ![w] = "backoff"]
                        /\ peer' = peer
    /\ UNCHANGED <<running, stolen>>
    /\ UNCHANGED <<sawStop, ownerUse>>
    /\ UNCHANGED mainVars

\* `if let Steal::Success(task) = injector.steal() { processed += 1; sleep; continue }`
\* Empty and Retry both fall through to the stealer loop, which starts at the
\* first stealer that is not the worker's own.
WorkerGlobalSteal(w) ==
    /\ pc[w] = "global"
    /\ \E o \in StealOutcomes(injector) :
        /\ injector' = o.rest
        /\ IF o.res = "Success"
           THEN /\ processed' = [processed EXCEPT ![w] = @ + 1]
                /\ held' = [held EXCEPT ![w] = o.task]
                /\ delivered' = [delivered EXCEPT ![o.task.id] = @ + 1]
                /\ pc' = [pc EXCEPT ![w] = "exec"]
                /\ peer' = peer
           ELSE /\ UNCHANGED <<processed, held, delivered>>
                /\ IF NextPeer(w, 0) < num_workers
                   THEN /\ pc' = [pc EXCEPT ![w] = "peers"]
                        /\ peer' = [peer EXCEPT ![w] = NextPeer(w, 0)]
                   ELSE /\ pc' = [pc EXCEPT ![w] = "backoff"]
                        /\ peer' = peer
    /\ UNCHANGED <<local, running, stolen>>
    /\ UNCHANGED <<sawStop, ownerUse>>
    /\ UNCHANGED mainVars

\* One `stealer.steal()` of the loop: `if let Steal::Success(task) =
\* stealer.steal() { stolen += 1; processed += 1; sleep; break }`. Past the
\* last stealer, and after the break, control reaches the backoff sleep.
WorkerPeerSteal(w) ==
    /\ pc[w] = "peers"
    /\ LET i == peer[w] IN
        \E o \in StealOutcomes(local[i]) :
             /\ local' = [local EXCEPT ![i] = o.rest]
             /\ IF o.res = "Success"
                THEN /\ stolen' = [stolen EXCEPT ![w] = @ + 1]
                     /\ processed' = [processed EXCEPT ![w] = @ + 1]
                     /\ held' = [held EXCEPT ![w] = o.task]
                     /\ delivered' = [delivered EXCEPT ![o.task.id] = @ + 1]
                     /\ pc' = [pc EXCEPT ![w] = "exec_stolen"]
                     /\ peer' = [peer EXCEPT ![w] = 0]
                ELSE /\ UNCHANGED <<stolen, processed, held, delivered>>
                     /\ IF NextPeer(w, i + 1) < num_workers
                        THEN /\ peer' = [peer EXCEPT ![w] = NextPeer(w, i + 1)]
                             /\ pc' = pc
                        ELSE /\ peer' = [peer EXCEPT ![w] = 0]
                             /\ pc' = [pc EXCEPT ![w] = "backoff"]
    /\ UNCHANGED <<injector, running>>
    /\ UNCHANGED <<sawStop, ownerUse>>
    /\ UNCHANGED mainVars

\* The task's sleep without the `continue`: control falls through to the
\* backoff sleep after every task.
WorkerExecThenBackoff(w) ==
    /\ pc[w] \in {"exec", "exec_stolen"}
    /\ held' = [held EXCEPT ![w] = NoTask]
    /\ pc' = [pc EXCEPT ![w] = "backoff"]
    /\ UNCHANGED <<injector, local, running, peer, processed, stolen, delivered>>
    /\ UNCHANGED <<sawStop, ownerUse>>
    /\ UNCHANGED mainVars

\* The task's sleep cut short by a cleared flag: the worker returns at once,
\* the task unfinished.
WorkerExecAbort(w) ==
    /\ pc[w] \in {"exec", "exec_stolen"}
    /\ IF running
       THEN /\ held' = [held EXCEPT ![w] = NoTask]
            /\ pc' = [pc EXCEPT ![w] = IF pc[w] = "exec" THEN "check" ELSE "backoff"]
       ELSE /\ held' = held
            /\ pc' = [pc EXCEPT ![w] = "done"]
    /\ UNCHANGED <<injector, local, running, peer, processed, stolen, delivered>>
    /\ UNCHANGED <<sawStop, ownerUse>>
    /\ UNCHANGED mainVars

\* `thread::sleep(Duration::from_micros(task * 10))` returning: `continue`
\* after a pop or an injector steal, `break` (on to the backoff sleep) after a
\* peer steal.
WorkerExec(w) ==
    /\ pc[w] \in {"exec", "exec_stolen"}
    /\ held' = [held EXCEPT ![w] = NoTask]
    /\ pc' = [pc EXCEPT ![w] = IF pc[w] = "exec" THEN "check" ELSE "backoff"]
    /\ UNCHANGED <<injector, local, running, peer, processed, stolen, delivered>>
    /\ UNCHANGED <<sawStop, ownerUse>>
    /\ UNCHANGED mainVars

\* `thread::sleep(Duration::from_micros(100))` returning, back to the loop test.
WorkerBackoff(w) ==
    /\ pc[w] = "backoff"
    /\ pc' = [pc EXCEPT ![w] = "check"]
    /\ UNCHANGED <<injector, local, running, peer, held, processed, stolen, delivered>>
    /\ UNCHANGED <<sawStop, ownerUse>>
    /\ UNCHANGED mainVars

WorkerStep(w) ==
    \/ WorkerCheck(w)
    \/ WorkerCheckEmpty(w)
    \/ WorkerLocalPop(w)
    \/ WorkerGlobalSteal(w)
    \/ WorkerPeerSteal(w)
    \/ WorkerExec(w)
    \/ WorkerBackoff(w)

\* ---- the main thread ----
workerVars == <<local, pc, peer, held, processed, stolen, delivered, sawStop,
                ownerUse, otherVars>>

\* `for i in 0..100 { injector.push(i % 10 + 1) }`
MainSubmit ==
    /\ mainPc = "submit"
    /\ IF next_i < NumTasks
       THEN /\ injector' = InjectorPush(injector, MkTask(next_i))
            /\ next_i' = next_i + 1
            /\ mainPc' = mainPc
       ELSE /\ mainPc' = "sleep"
            /\ UNCHANGED <<injector, next_i>>
    /\ UNCHANGED <<running, joined, total, atShutdown, shutdownCalls>>
    /\ UNCHANGED workerVars

\* `thread::sleep(Duration::from_millis(500))` returning. The sleep orders
\* nothing: the workers may have done any amount of work by then.
MainSleep ==
    /\ mainPc = "sleep"
    /\ mainPc' = "shutdown"
    /\ UNCHANGED <<injector, running, next_i, joined, total, atShutdown, shutdownCalls>>
    /\ UNCHANGED workerVars

\* A store that flips the flag instead of clearing it.
StoreToggle(r) == ~r

\* The value `running.store(false, Relaxed)` leaves in the flag that held r.
StoreFalse(r) == FALSE

QueuedIds == SeqIds(injector) \cup UNION { SeqIds(local[w]) : w \in Workers }

\* `running.store(false, Ordering::Relaxed)`
MainShutdown ==
    /\ mainPc = "shutdown"
    /\ running' = StoreFalse(running)
    /\ mainPc' = "join"
    /\ atShutdown' = QueuedIds
    /\ shutdownCalls' = shutdownCalls + 1
    /\ UNCHANGED <<injector, next_i, joined, total>>
    /\ UNCHANGED workerVars

\* A join that returns the thread's current count without waiting for it.
MainJoinNoWait ==
    /\ mainPc = "join"
    /\ IF joined < num_workers
       THEN /\ total' = total + processed[joined]
            /\ joined' = joined + 1
            /\ mainPc' = mainPc
       ELSE /\ mainPc' = "done"
            /\ UNCHANGED <<joined, total>>
    /\ UNCHANGED <<injector, running, next_i, atShutdown, shutdownCalls>>
    /\ UNCHANGED workerVars

\* `for handle in handles { total += handle.join().unwrap(); }` then the final
\* println: join blocks until the thread has returned, and yields the
\* `processed` the closure returned.
MainJoin ==
    /\ mainPc = "join"
    /\ IF joined < num_workers
       THEN /\ pc[joined] = "done"
            /\ total' = total + processed[joined]
            /\ joined' = joined + 1
            /\ mainPc' = mainPc
       ELSE /\ mainPc' = "done"
            /\ UNCHANGED <<joined, total>>
    /\ UNCHANGED <<injector, running, next_i, atShutdown, shutdownCalls>>
    /\ UNCHANGED workerVars

MainStep == MainSubmit \/ MainSleep \/ MainShutdown \/ MainJoin

Next == (\E w \in Workers : WorkerStep(w)) \/ MainStep

Spec == Init /\ [][Next]_vars

\* The caller invoking shutdown again: a further `running.store(false,
\* Relaxed)` on the shared flag, after the first one.
MainShutdownAgain ==
    /\ shutdownCalls >= 1
    /\ shutdownCalls < MaxShutdownCalls
    /\ running' = StoreFalse(running)
    /\ shutdownCalls' = shutdownCalls + 1
    /\ UNCHANGED <<injector, mainPc, next_i, joined, total, atShutdown>>
    /\ UNCHANGED workerVars

NextRepeat == Next \/ MainShutdownAgain
SpecRepeat == Init /\ [][NextRepeat]_vars

\* A submission source that does not push everything up front: the submit
\* loop may stop with tasks left, and the remaining `injector.push(i % 10 + 1)`
\* calls arrive later from the caller, in any state, also after
\* running.store(false) and after the workers have returned.
MainStopSubmitting ==
    /\ mainPc = "submit"
    /\ next_i < NumTasks
    /\ mainPc' = "sleep"
    /\ UNCHANGED <<injector, running, next_i, joined, total, atShutdown, shutdownCalls>>
    /\ UNCHANGED workerVars

ExternalSubmit ==
    /\ mainPc # "submit"
    /\ next_i < NumTasks
    /\ injector' = InjectorPush(injector, MkTask(next_i))
    /\ next_i' = next_i + 1
    /\ UNCHANGED <<running, mainPc, joined, total, atShutdown, shutdownCalls>>
    /\ UNCHANGED workerVars

NextSubmit == Next \/ MainStopSubmitting \/ ExternalSubmit
SpecSubmit == Init /\ [][NextSubmit]_vars

\* Every thread is an OS thread that the scheduler keeps running: a thread
\* whose next step stays possible takes it.
Fairness == (\A w \in Workers : WF_wsVars(WorkerStep(w))) /\ WF_wsVars(MainStep)
FairSpec == Spec /\ Fairness

AllStopped == \A w \in Workers : pc[w] = "done"

\* C7: once running.store(false) has run (the submissions are over by then),
\* every worker thread eventually returns and the join loop eventually ends.
C7_ShutdownTerminates == (~running) ~> (AllStopped /\ mainPc = "done")
C7_Witness == ~running /\ ~AllStopped /\ injector # <<>>

\* The workers while the flag stays true: the main thread's sleep may last as
\* long as it likes (no fairness on it), every worker thread keeps running,
\* and a worker that reaches injector.steal() again and again with tasks
\* queued does not lose the race every time (a Retry is returned only when
\* another thread's operation on the queue went through, and those are
\* finitely many).
GlobalStealSuccess(w) == WorkerGlobalSteal(w) /\ held'[w] # NoTask
RunningFairness ==
    /\ \A w \in Workers : WF_wsVars(WorkerStep(w)) /\ SF_wsVars(GlobalStealSuccess(w))
    /\ WF_wsVars(MainSubmit)
RunningSpec == Spec /\ RunningFairness

\* C12: a task pushed into the injector is eventually stolen by some worker,
\* also while later pushes keep arriving, unless the flag is cleared first.
C12_QueuedTaskEventuallyTaken ==
    \A t \in TaskIds : (t \in SeqIds(injector)) ~> (delivered[t] >= 1 \/ ~running)
C12_Witness ==
    /\ running
    /\ next_i < NumTasks
    /\ injector # <<>>
    /\ \E t \in TaskIds : delivered[t] >= 1


\* ---- what the claims speak of ----
Count(q, t) == Cardinality({ k \in 1 .. Len(q) : q[k].id = t })
Queued(t) == Count(injector, t) + SumOver([w \in Workers |-> Count(local[w], t)], Workers)
Holders(t) == { w \in Workers : held[w].id = t }
TotalProcessed == SumOver(processed, Workers)
TotalStolen == SumOver(stolen, Workers)
\* What the join loop hands back: the one sum it keeps (printed at the end).
JoinResult == [total_processed |-> total]

TypeOK ==
    /\ running \in BOOLEAN
    /\ pc \in [Workers -> {"check", "check_empty", "pop", "global", "peers",
                           "exec", "exec_stolen", "backoff", "done"}]
    /\ peer \in [Workers -> Workers]
    /\ processed \in [Workers -> 0 .. NumTasks]
    /\ stolen \in [Workers -> 0 .. NumTasks]
    /\ mainPc \in {"submit", "sleep", "shutdown", "join", "done"}
    /\ next_i \in 0 .. NumTasks
    /\ joined \in 0 .. num_workers
    /\ total \in 0 .. NumTasks

\* C1: when running.store(false) ran with every submission made and no task
\* left in any queue, the total the join loop ends with is exactly the number
\* of tasks submitted, and every task was handed to a worker exactly once.
C1_AllExecutedOnceWhenDrained ==
    (mainPc = "done" /\ atShutdown = {}) =>
        /\ total = NumTasks
        /\ TotalProcessed = NumTasks
        /\ \A t \in TaskIds : delivered[t] = 1
C1_Witness == mainPc = "done" /\ atShutdown = {} /\ \A w \in Workers : processed[w] > 0

\* C2 (as claimed): every task queued at the instant of running.store(false)
\* has been processed by the time the join loop has ended.
C2_QueuedAtShutdownProcessed ==
    mainPc = "done" => \A t \in atShutdown : delivered[t] >= 1

\* C3 (as claimed): after the submissions, the store and the joins, the sum of
\* the workers' processed counts (the code reports no dropped task, so that
\* term is zero) equals the number of tasks submitted.
C3_ProcessedEqualsSubmitted ==
    mainPc = "done" => (total = NumTasks /\ TotalProcessed = NumTasks)

\* C4: every submitted task is in exactly one place: still in one queue, or
\* handed to a worker exactly once (and held by at most one worker); a task not
\* yet submitted is nowhere; the workers' processed counts never exceed the
\* number of tasks submitted.
C4_ExactlyOnePlace ==
    /\ \A t \in TaskIds :
        /\ t < next_i => Queued(t) + delivered[t] = 1
        /\ t >= next_i => Queued(t) + delivered[t] = 0
        /\ Cardinality(Holders(t)) <= delivered[t]
    /\ TotalProcessed = SumOver(delivered, TaskIds)
    /\ TotalProcessed <= next_i
C4_Witness ==
    \E w1, w2 \in Workers :
        /\ w1 # w2
        /\ held[w1] # NoTask
        /\ held[w2] # NoTask
        /\ injector # <<>>

\* C5: the flag is true until running.store(false) has run, and a step taken
\* with the flag false leaves it false.
C5_FlagMonotone ==
    /\ [](shutdownCalls = 0 => running)
    /\ [][(~running) => (~running')]_vars
C5_Witness == ~running /\ \E w \in Workers : pc[w] \in {"pop", "global", "peers", "exec", "backoff"}

\* C6: a running.store(false) after the first changes nothing of the program's
\* state, so what can happen after it is what could happen before it.
C6_ShutdownIdempotent ==
    [][(shutdownCalls >= 1 /\ shutdownCalls' > shutdownCalls) => UNCHANGED progVars]_vars
C6_Witness == shutdownCalls >= 2 /\ ~AllStopped

\* C8: the join loop has ended only when every worker thread has returned, and
\* each handle it has consumed belongs to a thread that has returned.
C8_JoinAfterAllStopped ==
    /\ mainPc = "done" => AllStopped
    /\ \A w \in Workers : w < joined => pc[w] = "done"
C8_Witness == mainPc = "done" /\ total > 0

\* C9 (as claimed): what join returns holds total_processed, the sum of the
\* workers' final processed counts, and total_stolen, the sum of their final
\* stolen counts.
C9_JoinReturnsBothTotals ==
    mainPc = "done" =>
        /\ JoinResult.total_processed = TotalProcessed
        /\ "total_stolen" \in DOMAIN JoinResult
        /\ JoinResult.total_stolen = TotalStolen

\* C10: a worker thread that has not returned can always take its next step,
\* whatever the other threads are doing, and the program as a whole can step
\* until the join loop has ended; a steal that finds nothing moves on.
C10_NoDeadlock ==
    /\ \A w \in Workers : pc[w] # "done" => ENABLED WorkerStep(w)
    /\ mainPc # "done" => ENABLED Next
C10_Witness ==
    \E w1, w2 \in Workers :
        /\ w1 # w2
        /\ pc[w1] = "global"
        /\ injector = <<>>
        /\ held[w2] # NoTask
        /\ next_i = NumTasks

\* C15: while a task is left to submit a push can be made in every state,
\* whatever the flag and whatever the workers are doing, and every push puts
\* the task at the tail of the injector and changes nothing else in it.
C15_SubmitAlwaysAccepted ==
    /\ [](next_i < NumTasks => ENABLED ((MainSubmit \/ ExternalSubmit) /\ next_i' = next_i + 1))
    /\ [][next_i' # next_i => injector' = Append(injector, MkTask(next_i))]_vars
C15_Witness ==
    /\ ~running
    /\ \E t \in SeqIds(injector) : t \notin atShutdown

\* C16: a pass starts at the worker's own deque; the injector is tried only
\* from a pop that found the deque empty; the stealers are tried only from an
\* injector steal that gave no task; and the task a worker starts executing
\* is the one its first successful attempt returned.
C16_SeekingOrder ==
    [][\A w \in Workers :
        /\ (pc[w] \in {"check", "check_empty"} /\ pc'[w] \notin {"check", "check_empty", "done"})
              => pc'[w] = "pop"
        /\ (pc[w] = "pop" /\ pc'[w] # "pop")
              => IF local[w] # <<>>
                 THEN pc'[w] = "exec" /\ held'[w] = Head(local[w]) /\ injector' = injector
                 ELSE pc'[w] = "global" /\ held'[w] = NoTask
        /\ (pc[w] # "global" /\ pc'[w] = "global")
              => (pc[w] = "pop" /\ local[w] = <<>>)
        /\ (pc[w] = "global" /\ pc'[w] # "global")
              => \/ pc'[w] = "exec" /\ held'[w] = Head(injector)
                 \/ pc'[w] \in {"peers", "backoff"} /\ held'[w] = NoTask /\ injector' = injector
        /\ (pc[w] # "peers" /\ pc'[w] = "peers")
              => (pc[w] = "global" /\ held'[w] = NoTask)
        /\ (pc[w] = "peers" /\ held'[w] # NoTask)
              => (pc'[w] = "exec_stolen" /\ held'[w] = Head(local[peer[w]]))
        /\ (held[w] = NoTask /\ held'[w] # NoTask)
              => pc[w] \in {"pop", "global", "peers"}
    ]_vars
C16_Witness ==
    \E w1, w2 \in Workers :
        /\ w1 # w2
        /\ pc[w1] = "exec"
        /\ held[w1] # NoTask
        /\ pc[w2] = "peers"

\* C17 (as claimed): a worker returns only with the flag false, its own deque
\* empty and the injector empty.
C17_StopsOnlyWhenGlobalEmpty ==
    [][\A w \in Workers :
        (pc[w] # "done" /\ pc'[w] = "done")
            => (~running /\ local[w] = <<>> /\ injector = <<>>)
    ]_vars

\* C18 (as claimed): a worker enters the backoff sleep only with the flag
\* true, from a pass whose pop, injector steal and stealer steals all failed.
C18_BackoffOnlyWhileRunning ==
    [][\A w \in Workers :
        (pc[w] # "backoff" /\ pc'[w] = "backoff")
            => /\ running
               /\ pc[w] \in {"global", "peers"}
               /\ held'[w] = NoTask
    ]_vars

\* C18 (amended): a worker enters the backoff sleep at the end of a pass whose
\* pop, injector steal and every stealer steal gave no task, whatever the
\* flag holds by then, or after the task of a successful stealer steal; after
\* a task from its own deque or the injector it goes back to the loop test.
C18_BackoffAfterFailedPass ==
    [][\A w \in Workers :
        /\ (pc[w] # "backoff" /\ pc'[w] = "backoff")
              => \/ /\ pc[w] = "peers"
                    /\ held'[w] = NoTask
                    /\ NextPeer(w, peer[w] + 1) >= num_workers
                 \/ /\ pc[w] = "global"
                    /\ held'[w] = NoTask
                    /\ NextPeer(w, 0) >= num_workers
                 \/ pc[w] = "exec_stolen"
        /\ (pc[w] = "exec" /\ pc'[w] # "exec") => pc'[w] = "check"
    ]_vars
C18_Witness == \E w \in Workers : pc[w] = "backoff" /\ ~running

\* C19: a worker is at the loop's exit test or has returned only with the flag
\* false; with the flag true a backoff sleep leads back to the loop test and
\* the loop test to the next pass.
C19_NoStopWhileRunning ==
    /\ [](running => \A w \in Workers : pc[w] \notin {"check_empty", "done"})
    /\ [][\A w \in Workers :
            /\ (pc[w] = "backoff" /\ pc'[w] # "backoff") => pc'[w] = "check"
            /\ (running /\ pc[w] = "check" /\ pc'[w] # "check") => pc'[w] = "pop"
       ]_vars
C19_Witness ==
    /\ running
    /\ next_i = NumTasks
    /\ injector = <<>>
    /\ \A w \in Workers : local[w] = <<>>
    /\ \E w \in Workers : pc[w] = "backoff"

\* C20: a worker holding a task is in that task's sleep and has counted it;
\* it returns only from the loop test, never from a task; every held task's
\* sleep ends with the task delivered once; and the join loop's total counts
\* every task handed to a worker, whenever the flag was cleared.
C20_ObtainedTaskCompleted ==
    /\ [](\A w \in Workers :
            held[w] # NoTask => (pc[w] \in {"exec", "exec_stolen"} /\ processed[w] >= 1))
    /\ [](mainPc = "done" => total = SumOver(delivered, TaskIds))
    /\ [][\A w \in Workers :
            (pc[w] # "done" /\ pc'[w] = "done") => (pc[w] = "check_empty" /\ held[w] = NoTask)
       ]_vars
    /\ \A t \in TaskIds : (Holders(t) # {}) ~> (Holders(t) = {} /\ delivered[t] = 1)
C20_Witness == ~running /\ \E w \in Workers : held[w] # NoTask

\* C21: a step in which a worker obtains a task adds exactly one to its
\* processed, and adds one to its stolen exactly when the task came from a
\* stealer; no other step changes either counter; so stolen <= processed.
Took(w) == held[w] = NoTask /\ held'[w] # NoTask
C21_CountersPerTask ==
    /\ [](\A w \in Workers : stolen[w] <= processed[w])
    /\ [][\A w \in Workers :
            /\ processed'[w] = processed[w] + (IF Took(w) THEN 1 ELSE 0)
            /\ stolen'[w] = stolen[w] + (IF Took(w) /\ pc[w] = "peers" THEN 1 ELSE 0)
       ]_vars
C21_Witness == \E w \in Workers : processed[w] >= 2 /\ stolen[w] = 0 /\ held[w] # NoTask

\* C22: a worker that has read the flag false is never at a stealer steal, and
\* any task it obtains afterwards comes from its own deque or the injector.
C22_NoPeerStealWhenDraining ==
    /\ [](\A w \in Workers : sawStop[w] => pc[w] \notin {"peers", "exec_stolen"})
    /\ [][\A w \in Workers :
            (sawStop[w] /\ Took(w)) => pc[w] \in {"pop", "global"}
       ]_vars
C22_Witness == \E w \in Workers : sawStop[w] /\ pc[w] = "check_empty" /\ injector # <<>>

\* C23: a worker that has returned stays returned: it holds and takes no task
\* and its counters keep their values, whatever is pushed afterwards.
C23_StoppedIsTerminal ==
    [][\A w \in Workers :
        pc[w] = "done" =>
            /\ pc'[w] = "done"
            /\ held[w] = NoTask /\ held'[w] = NoTask
            /\ processed'[w] = processed[w]
            /\ stolen'[w] = stolen[w]
    ]_vars
C23_Witness ==
    /\ \E w \in Workers : pc[w] = "done"
    /\ \E t \in SeqIds(injector) : t \notin atShutdown

\* C24: every worker deque is empty, no worker is executing a stolen task and
\* every stolen count is 0, in every state and for every pattern of pushes.
C24_LocalQueuesAlwaysEmpty ==
    \A w \in Workers :
        /\ local[w] = <<>>
        /\ stolen[w] = 0
        /\ pc[w] # "exec_stolen"
C24_Witness ==
    /\ \E w \in Workers : pc[w] = "peers"
    /\ TotalProcessed >= 1
    /\ injector # <<>>

\* C25: the stealer a worker is about to try is never its own; the loop
\* starts at the first other index, moves to the next other index, and
\* ends only past the last other index.
Others(w) == Workers \ {w}
C25_NeverStealsFromSelf ==
    /\ [](\A w \in Workers : pc[w] = "peers" => peer[w] \in Others(w))
    /\ [][\A w \in Workers :
            /\ (pc[w] # "peers" /\ pc'[w] = "peers")
                  => \A j \in Others(w) : peer'[w] <= j
            /\ (pc[w] = "peers" /\ pc'[w] = "peers" /\ peer'[w] # peer[w])
                  => /\ peer'[w] > peer[w]
                     /\ \A j \in Others(w) : j > peer[w] => peer'[w] <= j
            /\ (pc[w] = "peers" /\ pc'[w] = "backoff")
                  => \A j \in Others(w) : j <= peer[w]
       ]_vars
C25_Witness == \E w \in Workers : pc[w] = "peers" /\ peer[w] > w

\* C26: a worker's processed and stolen change only in that worker's own
\* steps, and the join loop adds a worker's count to total only when that
\* worker has returned.
C26_CountersReadAfterStop ==
    [][/\ \A w \in Workers :
            (processed'[w] # processed[w] \/ stolen'[w] # stolen[w])
                => (pc'[w] # pc[w] /\ \A v \in Others(w) : pc'[v] = pc[v])
       /\ (joined' # joined \/ total' # total)
            => (pc[joined] = "done" /\ total' = total + processed[joined])
    ]_vars
C26_Witness == joined >= 1 /\ \E w \in Workers : w >= joined /\ pc[w] # "done"

\* C27: the is_empty/pop end of deque q is used by thread q alone; any other
\* thread that has turned to deque q is at a stealer.steal().
C27_OwnerEndOnlyByOwner == \A q \in Workers : ownerUse[q] \subseteq {q}
C27_Witness ==
    \E q \in Workers : \E v \in Others(q) :
        ownerUse[q] = {q} /\ pc[v] = "peers" /\ peer[v] = q

\* ======================================================================
\* Graceful-shutdown coordinator of src/src/chapter16_cancellation.rs
\* ======================================================================
\* mpsc::Sender::clone and drop, counted on the channel.
CloneSender(n) == n + 1
DropSender(n) == n - 1

\* complete_rx.recv() on a channel nobody sends on: resolves (to None) once
\* every Sender is gone, and is pending until then.
RecvOutcome(senders) == IF senders = 0 THEN "None" ELSE "Pending"

\* `let (shutdown_rx, done_tx) = shutdown.subscribe(); tokio::spawn(graceful_worker(..))`
\* for the next i of 1..=3; after the last one main goes to its sleep.
GsSpawn ==
    /\ gsPc = "spawn"
    /\ \E i \in GWorkers :
        /\ gwPc[i] = "unspawned"
        /\ \A j \in GWorkers : j < i => gwPc[j] # "unspawned"
        /\ gwPc' = [gwPc EXCEPT ![i] = "select"]
        /\ gsSenders' = CloneSender(gsSenders)
        /\ gsPc' = IF i = NumGraceful THEN "sleep" ELSE "spawn"
    /\ UNCHANGED <<gsResult, gwInbox, gwRounds>>
    /\ UNCHANGED <<wsVars, laterVars, cacheVars, maxVars>>

\* `sleep(Duration::from_millis(400)).await`
GsSleep ==
    /\ gsPc = "sleep"
    /\ gsPc' = "trigger"
    /\ UNCHANGED <<gsSenders, gsResult, gwPc, gwInbox, gwRounds>>
    /\ UNCHANGED <<wsVars, laterVars, cacheVars, maxVars>>

\* `shutdown.trigger()`: notify.send(()) reaches every live receiver.
GsTrigger ==
    /\ gsPc = "trigger"
    /\ gwInbox' = [i \in GWorkers |-> IF gwPc[i] \in {"select", "cleanup"} THEN gwInbox[i] + 1 ELSE gwInbox[i]]
    /\ gsPc' = "wait"
    /\ UNCHANGED <<gsSenders, gsResult, gwPc, gwRounds>>
    /\ UNCHANGED <<wsVars, laterVars, cacheVars, maxVars>>

\* wait_for_completion(timeout): `drop(self.complete_tx.clone())`, then
\* timeout(timeout, complete_rx.recv()). recv() resolves (Ok branch) when no
\* Sender is left; while it is pending the deadline may pass at any moment,
\* whatever the workers are doing (Err branch).
GsWaitForCompletion ==
    /\ gsPc = "wait"
    /\ LET senders == DropSender(CloneSender(gsSenders)) IN
        /\ gsSenders' = senders
        /\ \/ /\ RecvOutcome(senders) = "None"
              /\ gsResult' = "graceful"
           \/ /\ RecvOutcome(senders) = "Pending"
              /\ gsResult' = "timeout"
    /\ gsPc' = "done"
    /\ UNCHANGED <<gwPc, gwInbox, gwRounds>>
    /\ UNCHANGED <<wsVars, laterVars, cacheVars, maxVars>>

\* select!: `_ = shutdown.recv()` is ready; the worker goes to its cleanup sleep.
GwRecv(i) ==
    /\ gwPc[i] = "select"
    /\ gwInbox[i] > 0
    /\ gwInbox' = [gwInbox EXCEPT ![i] = @ - 1]
    /\ gwPc' = [gwPc EXCEPT ![i] = "cleanup"]
    /\ UNCHANGED <<gsPc, gsSenders, gsResult, gwRounds>>
    /\ UNCHANGED <<wsVars, laterVars, cacheVars, maxVars>>

\* select!: `_ = sleep(150 ms)` is ready; "Working..." and around the loop.
GwWork(i) ==
    /\ gwPc[i] = "select"
    /\ gwRounds[i] < MaxRounds
    /\ gwRounds' = [gwRounds EXCEPT ![i] = @ + 1]
    /\ UNCHANGED <<gsPc, gsSenders, gsResult, gwPc, gwInbox>>
    /\ UNCHANGED <<wsVars, laterVars, cacheVars, maxVars>>

\* the cleanup sleep ends, `break`, the function returns: `_done` is dropped.
GwFinish(i) ==
    /\ gwPc[i] = "cleanup"
    /\ gwPc' = [gwPc EXCEPT ![i] = "done"]
    /\ gsSenders' = DropSender(gsSenders)
    /\ UNCHANGED <<gsPc, gsResult, gwInbox, gwRounds>>
    /\ UNCHANGED <<wsVars, laterVars, cacheVars, maxVars>>

GsNext ==
    \/ GsSpawn
    \/ GsSleep
    \/ GsTrigger
    \/ GsWaitForCompletion
    \/ \E i \in GWorkers : GwRecv(i) \/ GwWork(i) \/ GwFinish(i)

GsSpec == Init /\ [][GsNext]_vars

\* C28 (as claimed): once wait_for_completion has returned, it has reported
\* graceful completion, not the timeout.
C28_GracefulCompletionReported == gsPc = "done" => gsResult = "graceful"

\* ======================================================================
\* Thread-safe cache of src/src/chapter13_cache.rs
\* ======================================================================

\* expensive_computation(n): the iterative fibonacci, `for _ in 2..=n`.
RECURSIVE FibLoop(_, _, _, _)
FibLoop(a, b, i, n) == IF i > n THEN b ELSE FibLoop(b, a + b, i + 1, n)
expensive_computation(n) == IF n <= 1 THEN n ELSE FibLoop(0, 1, 2, n)

\* The closure `|| expensive_computation(key)` run by thread t. `by` is a
\* history tag telling which thread's run produced the stored u64.
ComputeValue(t, k) == [val |-> expensive_computation(k), by |-> t]

\* A thread that always computes after taking the write lock (no second look).
DoubleCheckSkip(t) ==
    /\ cachePc[t] = "double_check"
    /\ cachePc' = [cachePc EXCEPT ![t] = "compute"]
    /\ UNCHANGED <<data, readers, writer, key, ret, computed, cacheLen>>
    /\ UNCHANGED <<wsVars, laterVars, gsVars, maxVars>>

\* `let data = self.data.read().unwrap();` (line 36)
AcquireRead(t) ==
    /\ cachePc[t] = "read_lock"
    /\ writer = NoThread
    /\ readers' = readers \cup {t}
    /\ cachePc' = [cachePc EXCEPT ![t] = "read_get"]
    /\ UNCHANGED <<data, writer, key, ret, computed, cacheLen>>
    /\ UNCHANGED <<wsVars, laterVars, gsVars, maxVars>>

\* `if let Some(value) = data.get(&key) { return value.clone(); }` and the end
\* of the block: the read guard is dropped either way (lines 37-40).
ReadGet(t) ==
    /\ cachePc[t] = "read_get"
    /\ readers' = readers \ {t}
    /\ IF data[key[t]] # NoValue
       THEN /\ ret' = [ret EXCEPT ![t] = data[key[t]]]
            /\ cachePc' = [cachePc EXCEPT ![t] = "done"]
       ELSE /\ ret' = ret
            /\ cachePc' = [cachePc EXCEPT ![t] = "write_lock"]
    /\ UNCHANGED <<data, writer, key, computed, cacheLen>>
    /\ UNCHANGED <<wsVars, laterVars, gsVars, maxVars>>

\* `let mut data = self.data.write().unwrap();` (line 43)
AcquireWrite(t) ==
    /\ cachePc[t] = "write_lock"
    /\ writer = NoThread
    /\ readers = {}
    /\ writer' = t
    /\ cachePc' = [cachePc EXCEPT ![t] = "double_check"]
    /\ UNCHANGED <<data, readers, key, ret, computed, cacheLen>>
    /\ UNCHANGED <<wsVars, laterVars, gsVars, maxVars>>

\* `if let Some(value) = data.get(&key) { return value.clone(); }` under the
\* write lock (lines 45-47); the return drops the guard.
DoubleCheck(t) ==
    /\ cachePc[t] = "double_check"
    /\ IF data[key[t]] # NoValue
       THEN /\ ret' = [ret EXCEPT ![t] = data[key[t]]]
            /\ writer' = NoThread
            /\ cachePc' = [cachePc EXCEPT ![t] = "done"]
       ELSE /\ UNCHANGED <<ret, writer>>
            /\ cachePc' = [cachePc EXCEPT ![t] = "compute"]
    /\ UNCHANGED <<data, readers, key, computed, cacheLen>>
    /\ UNCHANGED <<wsVars, laterVars, gsVars, maxVars>>

\* `let value = f(); data.insert(key, value.clone()); value` (lines 49-51);
\* the write guard is dropped on return.
ComputeInsert(t) ==
    /\ cachePc[t] = "compute"
    /\ LET v == ComputeValue(t, key[t]) IN
        /\ computed' = [computed EXCEPT ![key[t]] = @ + 1]
        /\ data' = [data EXCEPT ![key[t]] = v]
        /\ ret' = [ret EXCEPT ![t] = v]
    /\ writer' = NoThread
    /\ cachePc' = [cachePc EXCEPT ![t] = "done"]
    /\ UNCHANGED <<readers, key, cacheLen>>
    /\ UNCHANGED <<wsVars, laterVars, gsVars, maxVars>>

\* main: every handle joined, then `cache.len()` (lines 100-104).
CacheJoinLen ==
    /\ \A t \in Callers : cachePc[t] = "done"
    /\ cacheLen = -1
    /\ writer = NoThread
    /\ cacheLen' = Cardinality({k \in KeyPool : data[k] # NoValue})
    /\ UNCHANGED <<data, readers, writer, cachePc, key, ret, computed>>
    /\ UNCHANGED <<wsVars, laterVars, gsVars, maxVars>>

CacheStep(t) ==
    \/ AcquireRead(t)
    \/ ReadGet(t)
    \/ AcquireWrite(t)
    \/ DoubleCheck(t)
    \/ ComputeInsert(t)

CacheNext == (\E t \in Callers : CacheStep(t)) \/ CacheJoinLen

CacheSpecInit == WsInit /\ GsInit /\ CacheInit /\ MaxIdle /\ LaterIdle
CacheSpec == CacheSpecInit /\ [][CacheNext]_vars

\* C29: for every key the closure has run at most once, and every thread
\* that has returned holds the value stored for its key, so any two callers
\* of one key hold the same value.
C29_ComputedOncePerKey ==
    /\ \A k \in KeyPool : computed[k] <= 1
    /\ \A t \in Callers : cachePc[t] = "done" =>
            /\ ret[t] # NoValue
            /\ ret[t] = data[key[t]]
            /\ ret[t].val = expensive_computation(key[t])
    /\ \A t1, t2 \in Callers :
            (cachePc[t1] = "done" /\ cachePc[t2] = "done" /\ key[t1] = key[t2])
                => ret[t1] = ret[t2]
    /\ cacheLen # -1 => cacheLen = Cardinality({key[t] : t \in Callers})
C29_Witness ==
    \E t1, t2 \in Callers :
        /\ t1 # t2
        /\ key[t1] = key[t2]
        /\ cachePc[t1] = "done"
        /\ ret[t1].by = t1
        /\ cachePc[t2] = "double_check"
        /\ data[key[t2]] = ret[t1]

\* ======================================================================
\* Lock-free maximum of src/src/chapter17_atomics.rs
\* ======================================================================

\* A plain store in place of the compare-exchange: writes whatever
\* max_value holds by now.
CasStore(t) ==
    /\ maxPc[t] = "cas"
    /\ max_value' = value[t]
    /\ maxPc' = [maxPc EXCEPT ![t] = "done"]
    /\ UNCHANGED <<current, value, finalMax>>
    /\ UNCHANGED <<wsVars, laterVars, gsVars, cacheVars>>

\* `let current = max_value.load(Relaxed); if value <= current { break; }`
MaxLoad(t) ==
    /\ maxPc[t] = "load"
    /\ current' = [current EXCEPT ![t] = max_value]
    /\ maxPc' = [maxPc EXCEPT ![t] = IF value[t] <= max_value THEN "done" ELSE "cas"]
    /\ UNCHANGED <<max_value, value, finalMax>>
    /\ UNCHANGED <<wsVars, laterVars, gsVars, cacheVars>>

\* compare_exchange_weak(current, value) => Ok(_): max_value still held
\* `current` and now holds `value`; `break`.
CasSuccess(t) ==
    /\ maxPc[t] = "cas"
    /\ max_value = current[t]
    /\ max_value' = value[t]
    /\ maxPc' = [maxPc EXCEPT ![t] = "done"]
    /\ UNCHANGED <<current, value, finalMax>>
    /\ UNCHANGED <<wsVars, laterVars, gsVars, cacheVars>>

\* compare_exchange_weak(current, value) => Err(_): max_value differs from
\* `current`, or the weak exchange failed spuriously; `continue`.
CasFail(t) ==
    /\ maxPc[t] = "cas"
    /\ maxPc' = [maxPc EXCEPT ![t] = "load"]
    /\ UNCHANGED <<max_value, current, value, finalMax>>
    /\ UNCHANGED <<wsVars, laterVars, gsVars, cacheVars>>

\* main: every handle joined, then `max_value.load(Relaxed)` (lines 120-124).
MaxJoinLoad ==
    /\ \A t \in Proposers : maxPc[t] = "done"
    /\ finalMax = -1
    /\ finalMax' = max_value
    /\ UNCHANGED <<max_value, maxPc, current, value>>
    /\ UNCHANGED <<wsVars, laterVars, gsVars, cacheVars>>

MaxStep(t) == MaxLoad(t) \/ CasSuccess(t) \/ CasFail(t)
MaxNext == (\E t \in Proposers : MaxStep(t)) \/ MaxJoinLoad

MaxSpecInit == WsInit /\ GsInit /\ CacheIdle /\ MaxInit /\ LaterIdle
MaxSpec == MaxSpecInit /\ [][MaxNext]_vars

\* Every thread keeps being scheduled, and a compare-exchange that is tried
\* again and again on an unchanged max_value does not fail spuriously for ever.
MaxFairness ==
    /\ \A t \in Proposers : WF_vars(MaxStep(t)) /\ SF_vars(CasSuccess(t))
    /\ WF_vars(MaxJoinLoad)
MaxFairSpec == MaxSpec /\ MaxFairness

RECURSIVE MaxOf(_)
MaxOf(S) == IF S = {} THEN 0
            ELSE LET x == CHOOSE y \in S : TRUE
                     m == MaxOf(S \ {x})
                 IN IF x > m THEN x ELSE m

\* C30: max_value never decreases in any step, every proposing thread leaves
\* its loop and main reads the final value, and that value is the largest of
\* the proposed values.
C30_LockFreeMax ==
    /\ [][max_value' >= max_value]_vars
    /\ <>((\A t \in Proposers : maxPc[t] = "done") /\ finalMax # -1)
    /\ [](finalMax # -1 => finalMax = MaxOf({value[t] : t \in Proposers}))
C30_Witness ==
    \E t \in Proposers :
        /\ maxPc[t] = "cas"
        /\ max_value # current[t]
        /\ max_value > 0
        /\ value[t] > max_value

\* ======================================================================
\* Bank-account actor of src/src/chapter14_actor.rs
\* ======================================================================
earlierVars == <<wsVars, gsVars, cacheVars, maxVars>>
EarlierIdle == WsInit /\ GsInit /\ CacheIdle /\ MaxIdle
notActorVars == <<earlierVars, orderVars, retryVars, editorVars, pipeVars>>

\* A withdrawal that subtracts without looking at the balance.
WithdrawOutcomeNoCheck(bal, amount) == [bal |-> bal - amount, res |-> "Ok"]

\* `if amount <= self.balance { self.balance -= amount; Ok(()) } else { Err("Insufficient funds") }`
WithdrawOutcome(bal, amount) ==
    IF amount <= bal
    THEN [bal |-> bal - amount, res |-> "Ok"]
    ELSE [bal |-> bal, res |-> "Insufficient funds"]

\* `self.sender.send(msg)`: queued while the receiver exists; once run() has
\* returned the receiver is gone, send returns Err and the message is dropped.
Send(m) ==
    /\ sentLog' = Append(sentLog, m)
    /\ mailbox' = IF acctPc = "running" THEN Append(mailbox, m) ELSE mailbox

\* AccountHandle::deposit(amount)
ClientDeposit ==
    /\ clientPc = "idle"
    /\ Len(sentLog) < MaxSent
    /\ \E a \in Amounts : Send([kind |-> "Deposit", amount |-> a])
    /\ UNCHANGED <<balance, acctPc, clientPc, reply, handled, lastQuery>>
    /\ UNCHANGED notActorVars

\* AccountHandle::withdraw(amount), up to the blocking rx.recv()
ClientWithdraw ==
    /\ clientPc = "idle"
    /\ Len(sentLog) < MaxSent
    /\ \E a \in Amounts : Send([kind |-> "Withdraw", amount |-> a])
    /\ clientPc' = "wait"
    /\ UNCHANGED <<balance, acctPc, reply, handled, lastQuery>>
    /\ UNCHANGED notActorVars

\* AccountHandle::balance(), up to the blocking rx.recv()
ClientBalance ==
    /\ clientPc = "idle"
    /\ Len(sentLog) < MaxSent
    /\ Send([kind |-> "Balance", amount |-> 0])
    /\ clientPc' = "wait"
    /\ UNCHANGED <<balance, acctPc, reply, handled, lastQuery>>
    /\ UNCHANGED notActorVars

\* AccountHandle::stop()
ClientStop ==
    /\ clientPc = "idle"
    /\ Len(sentLog) < MaxSent
    /\ Send([kind |-> "Stop", amount |-> 0])
    /\ UNCHANGED <<balance, acctPc, clientPc, reply, handled, lastQuery>>
    /\ UNCHANGED notActorVars

\* `rx.recv().unwrap_or(..)` of withdraw()/balance(): the reply the actor sent,
\* or, when the reply sender was dropped unanswered, the call's default.
ClientRecv ==
    /\ clientPc = "wait"
    /\ reply # NoReply \/ acctPc = "closed"
    /\ LET call == sentLog[Len(sentLog)] IN
        lastQuery' =
            IF reply # NoReply
            THEN [at |-> Len(sentLog), kind |-> reply.kind, res |-> reply.res, bal |-> reply.bal]
            ELSE IF call.kind = "Withdraw"
                 THEN [at |-> Len(sentLog), kind |-> "Withdraw", res |-> "Actor unavailable", bal |-> 0]
                 ELSE [at |-> Len(sentLog), kind |-> "Balance", res |-> "", bal |-> 0]
    /\ reply' = NoReply
    /\ clientPc' = "idle"
    /\ UNCHANGED <<mailbox, balance, acctPc, sentLog, handled>>
    /\ UNCHANGED notActorVars

\* One turn of `while let Ok(msg) = self.receiver.recv() { match msg { .. } }`.
\* On Stop the loop breaks, run() returns and the receiver is dropped with
\* whatever is still queued.
ActorHandle ==
    /\ acctPc = "running"
    /\ mailbox # <<>>
    /\ handled' = handled + 1
    /\ LET msg == Head(mailbox) IN
        CASE msg.kind = "Deposit" ->
                /\ balance' = balance + msg.amount
                /\ mailbox' = Tail(mailbox)
                /\ UNCHANGED <<acctPc, reply>>
          [] msg.kind = "Withdraw" ->
                LET o == WithdrawOutcome(balance, msg.amount) IN
                /\ balance' = o.bal
                /\ reply' = [kind |-> "Withdraw", res |-> o.res, bal |-> 0]
                /\ mailbox' = Tail(mailbox)
                /\ UNCHANGED acctPc
          [] msg.kind = "Balance" ->
                /\ reply' = [kind |-> "Balance", res |-> "", bal |-> balance]
                /\ mailbox' = Tail(mailbox)
                /\ UNCHANGED <<balance, acctPc>>
          [] msg.kind = "Stop" ->
                /\ acctPc' = "closed"
                /\ mailbox' = <<>>
                /\ UNCHANGED <<balance, reply>>
    /\ UNCHANGED <<clientPc, sentLog, lastQuery>>
    /\ UNCHANGED notActorVars

ActorNext ==
    \/ ClientDeposit
    \/ ClientWithdraw
    \/ ClientBalance
    \/ ClientStop
    \/ ClientRecv
    \/ ActorHandle

ActorSpecInit == EarlierIdle /\ ActorInit /\ OrderInit /\ RetryIdle /\ EditorInit /\ PipeIdle
ActorSpec == ActorSpecInit /\ [][ActorNext]_vars

\* The balance that the first n messages of a log lead to when each Deposit
\* adds its amount and each Withdraw that the balance covers subtracts its own.
RECURSIVE ReplayBalance(_, _)
ReplayBalance(log, n) ==
    IF n = 0 THEN 0
    ELSE LET b == ReplayBalance(log, n - 1)
             m == log[n]
         IN CASE m.kind = "Deposit" -> b + m.amount
              [] m.kind = "Withdraw" -> IF m.amount <= b THEN b - m.amount ELSE b
              [] OTHER -> b

StopSentBefore(n) == \E i \in 1 .. (n - 1) : sentLog[i].kind = "Stop"

\* The messages are taken one at a time in the order of the sends.
HandledInOrder ==
    /\ balance >= 0
    /\ balance = ReplayBalance(sentLog, handled)
    /\ acctPc = "running" => mailbox = SubSeq(sentLog, handled + 1, Len(sentLog))
    /\ acctPc = "closed" => sentLog[handled].kind = "Stop" /\ ~StopSentBefore(handled)

\* What a withdraw()/balance() answered when every earlier message counts.
AnswerReflectsLog ==
    LET before == ReplayBalance(sentLog, lastQuery.at - 1)
        call == sentLog[lastQuery.at]
    IN /\ lastQuery.kind = "Balance" => lastQuery.bal = before
       /\ lastQuery.kind = "Withdraw" =>
            lastQuery.res = IF call.amount > before THEN "Insufficient funds" ELSE "Ok"

\* C31 (as claimed): messages are handled one at a time in the order sent,
\* the balance never goes below zero, a Withdraw above the balance answers
\* "Insufficient funds", and every Balance answer reflects every Deposit and
\* Withdraw sent before it.
C31_RepliesReflectAllSent ==
    /\ HandledInOrder
    /\ lastQuery # NoQuery => AnswerReflectsLog

\* C31 (amended): the same for every call made before a Stop was sent; a
\* call made after a Stop is answered by its default, 0 for balance() and
\* "Actor unavailable" for withdraw().
C31_RepliesReflectSentBeforeStop ==
    /\ HandledInOrder
    /\ lastQuery # NoQuery =>
        IF StopSentBefore(lastQuery.at)
        THEN /\ lastQuery.kind = "Balance" => lastQuery.bal = 0
             /\ lastQuery.kind = "Withdraw" => lastQuery.res = "Actor unavailable"
        ELSE AnswerReflectsLog
C31_Witness ==
    /\ lastQuery.kind = "Balance"
    /\ lastQuery.bal > 0
    /\ ~StopSentBefore(lastQuery.at)
    /\ \E i \in 1 .. (lastQuery.at - 1) :
        /\ sentLog[i].kind = "Withdraw"
        /\ sentLog[i].amount > ReplayBalance(sentLog, i - 1)

\* ======================================================================
\* Order of src/src/chapter03_enums.rs
\* ======================================================================
notOrderVars == <<earlierVars, actorVars, retryVars, editorVars, pipeVars>>

\* Order::ship: the new status and the Result. shipped_at (SystemTime::now())
\* is left out of the ShippingInfo.
ShipOutcome(st, carrier, tracking_number) ==
    IF st.tag = "Pending"
    THEN [status |-> [tag |-> "Shipped",
                      shipping |-> [carrier |-> carrier, tracking_number |-> tracking_number]],
          result |-> "Ok"]
    ELSE [status |-> st, result |-> "Can only ship pending orders"]

\* Order::deliver: the ShippingInfo is cloned into the Delivered variant.
DeliverOutcome(st, signature) ==
    IF st.tag = "Shipped"
    THEN [status |-> [tag |-> "Delivered",
                      shipping |-> st.shipping,
                      delivery |-> [signature |-> signature]],
          result |-> "Ok"]
    ELSE [status |-> st, result |-> "Can only deliver shipped orders"]

\* A cancel that also accepts shipped orders.
CancelOutcomeShipped(st, reason) ==
    IF st.tag \in {"Pending", "Shipped"}
    THEN [status |-> [tag |-> "Cancelled", reason |-> reason], result |-> "Ok"]
    ELSE [status |-> st, result |-> "Order already cancelled"]

\* Order::cancel
CancelOutcome(st, reason) ==
    CASE st.tag = "Pending" ->
            [status |-> [tag |-> "Cancelled", reason |-> reason], result |-> "Ok"]
      [] st.tag = "Shipped" -> [status |-> st, result |-> "Cannot cancel shipped orders"]
      [] st.tag = "Delivered" -> [status |-> st, result |-> "Cannot cancel delivered orders"]
      [] st.tag = "Cancelled" -> [status |-> st, result |-> "Order already cancelled"]

\* order.add_item(item)
AddItem ==
    /\ Len(items) < MaxItems
    /\ \E item \in ItemPool : items' = Append(items, item)
    /\ lastCall' = "add_item"
    /\ UNCHANGED <<status, orderResult>>
    /\ UNCHANGED notOrderVars

\* order.ship(carrier, tracking_number)
Ship ==
    /\ \E carrier \in Carriers, tracking_number \in TrackingNumbers :
        LET o == ShipOutcome(status, carrier, tracking_number) IN
        /\ status' = o.status
        /\ orderResult' = o.result
    /\ lastCall' = "ship"
    /\ UNCHANGED items
    /\ UNCHANGED notOrderVars

\* order.deliver(signature)
Deliver ==
    /\ \E signature \in Signatures :
        LET o == DeliverOutcome(status, signature) IN
        /\ status' = o.status
        /\ orderResult' = o.result
    /\ lastCall' = "deliver"
    /\ UNCHANGED items
    /\ UNCHANGED notOrderVars

\* order.cancel(reason)
Cancel ==
    /\ \E reason \in Reasons :
        LET o == CancelOutcome(status, reason) IN
        /\ status' = o.status
        /\ orderResult' = o.result
    /\ lastCall' = "cancel"
    /\ UNCHANGED items
    /\ UNCHANGED notOrderVars

OrderNext == AddItem \/ Ship \/ Deliver \/ Cancel

OrderSpecInit == EarlierIdle /\ ActorInit /\ OrderInit /\ RetryIdle /\ EditorInit /\ PipeIdle
OrderSpec == OrderSpecInit /\ [][OrderNext]_vars

\* C32: ship succeeds exactly from Pending and leads to Shipped, deliver
\* exactly from Shipped and leads to Delivered, cancel exactly from Pending
\* and leads to Cancelled; any other call returns an error and leaves the
\* status as it was; nothing else changes the status, so Delivered and
\* Cancelled are terminal.
CallFrom(call, from, to) ==
    lastCall' = call =>
        IF status.tag = from
        THEN orderResult' = "Ok" /\ status'.tag = to
        ELSE orderResult' \notin {"Ok", "none"} /\ status' = status
C32_StatusTransitions ==
    [][/\ CallFrom("ship", "Pending", "Shipped")
       /\ CallFrom("deliver", "Shipped", "Delivered")
       /\ CallFrom("cancel", "Pending", "Cancelled")
       /\ lastCall' = "add_item" => status' = status
       /\ status.tag \in {"Delivered", "Cancelled"} => status' = status
       /\ status' # status =>
            \/ status.tag = "Pending" /\ status'.tag \in {"Shipped", "Cancelled"}
            \/ status.tag = "Shipped" /\ status'.tag = "Delivered"
                    /\ status'.shipping = status.shipping
    ]_vars
C32_Witness ==
    /\ status.tag = "Delivered"
    /\ lastCall = "cancel"
    /\ orderResult = "Cannot cancel delivered orders"

\* ======================================================================
\* RetryNotifier of src/src/chapter10_decorator.rs
\* ======================================================================
notRetryVars == <<earlierVars, actorVars, orderVars, editorVars, pipeVars>>

\* `for attempt in 1..=self.max_attempts`: the first element of the range, or
\* past the loop when the range is empty, where `unreachable!()` stands.
RetryEnter ==
    /\ retryPc = "call"
    /\ IF 1 <= max_attempts
       THEN /\ attempt' = 1
            /\ retryPc' = "attempt"
       ELSE /\ attempt' = attempt
            /\ retryPc' = "unreachable"
    /\ UNCHANGED <<max_attempts, innerLog, retryResult>>
    /\ UNCHANGED notRetryVars

\* `match self.inner.send(message)`: Ok returns Ok; Err with attempts left
\* goes to the sleep; Err on the last attempt returns "All attempts failed".
RetryAttempt ==
    /\ retryPc = "attempt"
    /\ \E r \in {[tag |-> "Ok", err |-> ""]} \cup {[tag |-> "Err", err |-> e] : e \in InnerErrors} :
        /\ innerLog' = Append(innerLog, r)
        /\ CASE r.tag = "Ok" ->
                    /\ retryResult' = [tag |-> "Ok", err |-> ""]
                    /\ retryPc' = "returned"
             [] r.tag = "Err" /\ attempt < max_attempts ->
                    /\ retryResult' = retryResult
                    /\ retryPc' = "sleep"
             [] OTHER ->
                    /\ retryResult' = [tag |-> "All attempts failed", err |-> r.err]
                    /\ retryPc' = "returned"
    /\ UNCHANGED <<max_attempts, attempt>>
    /\ UNCHANGED notRetryVars

\* `std::thread::sleep(self.delay)`, then the next element of the range; past
\* the last one the loop ends at `unreachable!()`.
RetrySleep ==
    /\ retryPc = "sleep"
    /\ IF attempt + 1 <= max_attempts
       THEN /\ attempt' = attempt + 1
            /\ retryPc' = "attempt"
       ELSE /\ attempt' = attempt
            /\ retryPc' = "unreachable"
    /\ UNCHANGED <<max_attempts, innerLog, retryResult>>
    /\ UNCHANGED notRetryVars

RetryNext == RetryEnter \/ RetryAttempt \/ RetrySleep

RetrySpecInit == EarlierIdle /\ ActorInit /\ OrderInit /\ RetryInit /\ EditorInit /\ PipeIdle
RetrySpec == RetrySpecInit /\ [][RetryNext]_vars

\* C33 (as claimed): the inner notifier is called at most max_attempts
\* times; Ok is returned at the first successful attempt, the "All attempts
\* failed" error after max_attempts failed ones; the unreachable!() after the
\* loop is never reached, whatever max_attempts is.
C33_RetryBounded ==
    /\ Len(innerLog) <= max_attempts
    /\ retryResult.tag = "Ok" =>
            /\ innerLog[Len(innerLog)].tag = "Ok"
            /\ \A k \in 1 .. (Len(innerLog) - 1) : innerLog[k].tag = "Err"
    /\ retryResult.tag = "All attempts failed" =>
            /\ Len(innerLog) = max_attempts
            /\ \A k \in 1 .. Len(innerLog) : innerLog[k].tag = "Err"
            /\ retryResult.err = innerLog[Len(innerLog)].err
    /\ retryPc = "returned" => retryResult # NoResult
    /\ retryPc # "unreachable"

\* ======================================================================
\* TextEditor of src/src/chapter11_command.rs
\* ======================================================================
notEditorVars == <<earlierVars, actorVars, orderVars, retryVars, pipeVars>>

\* String::insert_str(position, s) and String::drain(from..to); both panic on
\* a range outside the string.
InsertStr(text, position, s) ==
    SubSeq(text, 1, position) \o s \o SubSeq(text, position + 1, Len(text))
InsertOk(text, position) == position <= Len(text)
Drained(text, from, to) == SubSeq(text, from + 1, to)
DrainRest(text, from, to) == SubSeq(text, 1, from) \o SubSeq(text, to + 1, Len(text))
DrainOk(text, from, to) == from <= to /\ to <= Len(text)

\* A DeleteText::execute that does not keep what it removed.
CommandExecuteForget(c, text) ==
    IF c.kind = "Insert"
    THEN [ok |-> InsertOk(text, c.position),
          text |-> InsertStr(text, c.position, c.text),
          cmd |-> c]
    ELSE [ok |-> DrainOk(text, c.position, c.position + c.length),
          text |-> DrainRest(text, c.position, c.position + c.length),
          cmd |-> c]

\* Command::execute of InsertText (line 25) and DeleteText (line 55): the new
\* text and the command as it is afterwards (`deleted` filled in).
CommandExecute(c, text) ==
    IF c.kind = "Insert"
    THEN [ok |-> InsertOk(text, c.position),
          text |-> InsertStr(text, c.position, c.text),
          cmd |-> c]
    ELSE [ok |-> DrainOk(text, c.position, c.position + c.length),
          text |-> DrainRest(text, c.position, c.position + c.length),
          cmd |-> [c EXCEPT !.text = Drained(text, c.position, c.position + c.length)]]

\* Command::undo of InsertText (line 29) and DeleteText (line 59).
CommandUndo(c, text) ==
    IF c.kind = "Insert"
    THEN [ok |-> DrainOk(text, c.position, c.position + Len(c.text)),
          text |-> DrainRest(text, c.position, c.position + Len(c.text))]
    ELSE [ok |-> InsertOk(text, c.position),
          text |-> InsertStr(text, c.position, c.text)]

\* The commands that are valid on a text: InsertText::new(position, text) with
\* the position inside it, DeleteText::new(position, length) with the range
\* inside it. `text` of a Delete is its `deleted` field.
ValidCommands(text) ==
    {[kind |-> "Insert", position |-> p, length |-> 0, text |-> s] :
        p \in 0 .. Len(text), s \in InsertTexts}
    \cup
    {c \in [kind : {"Delete"}, position : 0 .. Len(text), length : 1 .. MaxLen, text : {<<>>}] :
        c.position + c.length <= Len(text)}

Pop(stack) == SubSeq(stack, 1, Len(stack) - 1)
Top(stack) == stack[Len(stack)]

\* TextEditor::execute(command)
EditorExecute ==
    /\ ~editorPanicked
    /\ Len(history) < MaxHistory
    /\ \E c \in ValidCommands(content) :
        LET o == CommandExecute(c, content) IN
        /\ Len(o.text) <= MaxLen
        /\ content' = o.text
        /\ history' = Append(history, o.cmd)
    /\ undo_stack' = <<>>
    /\ beforeStack' = Append(beforeStack, content)
    /\ afterStack' = <<>>
    /\ lastOp' = "execute"
    /\ UNCHANGED editorPanicked
    /\ UNCHANGED notEditorVars

\* TextEditor::undo()
EditorUndo ==
    /\ ~editorPanicked
    /\ lastOp' = "undo"
    /\ IF history # <<>>
       THEN LET o == CommandUndo(Top(history), content) IN
            /\ history' = Pop(history)
            /\ beforeStack' = Pop(beforeStack)
            /\ IF o.ok
               THEN /\ content' = o.text
                    /\ undo_stack' = Append(undo_stack, Top(history))
                    /\ afterStack' = Append(afterStack, content)
                    /\ UNCHANGED editorPanicked
               ELSE /\ editorPanicked' = TRUE
                    /\ UNCHANGED <<content, undo_stack, afterStack>>
       ELSE UNCHANGED <<content, history, undo_stack, editorPanicked, beforeStack, afterStack>>
    /\ UNCHANGED notEditorVars

\* TextEditor::redo()
EditorRedo ==
    /\ ~editorPanicked
    /\ lastOp' = "redo"
    /\ IF undo_stack # <<>>
       THEN LET o == CommandExecute(Top(undo_stack), content) IN
            /\ undo_stack' = Pop(undo_stack)
            /\ afterStack' = Pop(afterStack)
            /\ IF o.ok
               THEN /\ content' = o.text
                    /\ history' = Append(history, o.cmd)
                    /\ beforeStack' = Append(beforeStack, content)
                    /\ UNCHANGED editorPanicked
               ELSE /\ editorPanicked' = TRUE
                    /\ UNCHANGED <<content, history, beforeStack>>
       ELSE UNCHANGED <<content, history, undo_stack, editorPanicked, beforeStack, afterStack>>
    /\ UNCHANGED notEditorVars

EditorNext == EditorExecute \/ EditorUndo \/ EditorRedo

EditorSpecInit == EarlierIdle /\ ActorInit /\ OrderInit /\ RetryIdle /\ EditorInit /\ PipeIdle
EditorSpec == EditorSpecInit /\ [][EditorNext]_vars

\* C34: an undo with a command in history gives back the content that held
\* before that command ran and moves the command to the redo stack; a redo
\* with a command on the redo stack gives back the content that held after
\* it ran; execute leaves the redo stack empty; undo with empty history and
\* redo with an empty redo stack change neither the content nor the stacks;
\* no String operation is given a range outside the content.
C34_UndoRedoRestore ==
    /\ [](~editorPanicked)
    /\ [][/\ (lastOp' = "undo" /\ history # <<>>) =>
                /\ content' = Top(beforeStack)
                /\ history' = Pop(history)
                /\ Len(undo_stack') = Len(undo_stack) + 1
          /\ (lastOp' = "redo" /\ undo_stack # <<>>) =>
                /\ content' = Top(afterStack)
                /\ undo_stack' = Pop(undo_stack)
                /\ Len(history') = Len(history) + 1
          /\ (lastOp' = "execute" /\ <<content, history>>' # <<content, history>>) =>
                undo_stack' = <<>>
          /\ (lastOp' = "undo" /\ history = <<>>) =>
                <<content, history, undo_stack>>' = <<content, history, undo_stack>>
          /\ (lastOp' = "redo" /\ undo_stack = <<>>) =>
                <<content, history, undo_stack>>' = <<content, history, undo_stack>>
       ]_vars
C34_Witness ==
    /\ lastOp = "redo"
    /\ history # <<>>
    /\ Top(history).kind = "Delete"
    /\ Top(history).text # <<>>
    /\ undo_stack = <<>>
    /\ Len(content) > 0

\* ======================================================================
\* Channel pipeline of src/src/chapter14_pipeline.rs
\* ======================================================================
notPipeVars == <<earlierVars, actorVars, orderVars, retryVars, editorVars>>

\* The ASCII digits, in order: the digit d is DigitChars[d + 1].
DigitChars == <<"0", "1", "2", "3", "4", "5", "6", "7", "8", "9">>
IsDigit(c) == \E d \in 1 .. 10 : DigitChars[d] = c
DigitValue(c) == (CHOOSE d \in 1 .. 10 : DigitChars[d] = c) - 1

\* u64::MAX as it is written, and the digits of a numeral without its
\* leading zeros (the last digit is kept).
MaxU64Digits == "18446744073709551615"
RECURSIVE StripZeros(_)
StripZeros(s) ==
    IF Len(s) > 1 /\ SubSeq(s, 1, 1) = "0" THEN StripZeros(Tail(s)) ELSE s
\* The number written by the digits d (no leading zeros) is at most u64::MAX:
\* checked_mul(10) and checked_add(digit) never fail while reading it.
FitsU64(d) ==
    \/ Len(d) < Len(MaxU64Digits)
    \/ /\ Len(d) = Len(MaxU64Digits)
       /\ \/ d = MaxU64Digits
          \/ \E k \in 1 .. Len(d) :
                /\ SubSeq(d, 1, k - 1) = SubSeq(MaxU64Digits, 1, k - 1)
                /\ DigitValue(SubSeq(d, k, k)) < DigitValue(SubSeq(MaxU64Digits, k, k))

\* u64::from_str: an optional leading '+', then at least one character, all
\* of them ASCII digits, read in base 10 into a u64; an empty string, any
\* other character, or a number above u64::MAX is an Err.
\* (Every number up to u64::MAX is Ok; TLC can compute val up to 2^31 - 1.)
\* DigitsValue(s, n) is the number written by the first n digits of s.
RECURSIVE DigitsValue(_, _)
DigitsValue(s, n) ==
    IF n = 0 THEN 0
    ELSE DigitsValue(s, n - 1) * 10 + DigitValue(SubSeq(s, n, n))
ParseU64(s) ==
    LET digits == IF Len(s) > 0 /\ SubSeq(s, 1, 1) = "+" THEN Tail(s) ELSE s IN
    IF /\ Len(digits) > 0
       /\ \A k \in 1 .. Len(digits) : IsDigit(SubSeq(digits, k, k))
       /\ FitsU64(StripZeros(digits))
    THEN [ok |-> TRUE, val |-> DigitsValue(StripZeros(digits), Len(StripZeros(digits)))]
    ELSE [ok |-> FALSE, val |-> 0]

\* `parts[0].parse().unwrap_or(0)`
ParseTimestamp(s) == LET r == ParseU64(s) IN IF r.ok THEN r.val ELSE 0

\* The positions of `c` in s, and the least of a non-empty set of positions.
CharPositions(s, c) == { k \in 1 .. Len(s) : SubSeq(s, k, k) = c }
FirstOf(ps) == CHOOSE k \in ps : \A j \in ps : k <= j

\* `line.splitn(n, sep)`: at most n parts, the last keeps the rest of the line.
RECURSIVE Splitn(_, _, _)
Splitn(n, sep, s) ==
    IF n = 0 THEN <<>>
    ELSE IF n = 1 \/ CharPositions(s, sep) = {} THEN <<s>>
    ELSE <<SubSeq(s, 1, FirstOf(CharPositions(s, sep)) - 1)>>
         \o Splitn(n - 1, sep, SubSeq(s, FirstOf(CharPositions(s, sep)) + 1, Len(s)))
Splitn3(line) == Splitn(3, "|", line)

\* `{}` of a u64: its decimal digits, no sign, no leading zeros.
RECURSIVE FormatU64(_)
FormatU64(n) ==
    IF n < 10 THEN DigitChars[n + 1]
    ELSE FormatU64(n \div 10) \o DigitChars[(n % 10) + 1]

\* The parser closure: Some(LogEntry {..}) as <<entry>>, None as <<>>.
ParseLine(line) ==
    LET parts == Splitn3(line) IN
    IF Len(parts) = 3
    THEN <<[timestamp |-> ParseTimestamp(parts[1]), level |-> parts[2], message |-> parts[3]]>>
    ELSE <<>>
\* ParseLine on the lines of the pool, evaluated once and looked up afterwards.
ParsedPool == [line \in LinePool |-> ParseLine(line)]

\* The three closures given to spawn_stage: Some(result) as <<result>>, None as <<>>.
Transform(i, item) ==
    CASE i = 1 -> IF item \in DOMAIN ParsedPool THEN ParsedPool[item] ELSE ParseLine(item)
      [] i = 2 -> IF item.level = "ERROR" \/ item.level = "WARN" THEN <<item>> ELSE <<>>
      [] i = 3 -> <<"[" \o FormatU64(item.timestamp) \o "] " \o item.level \o " - " \o item.message>>

\* The Receiver of channel i is owned by the thread that iterates over it.
RxAlive(i) == stagePc[i + 1] # "finished"

\* A stage that stops as soon as it finds its input channel empty.
StageRecvNoWait(i) ==
    /\ stagePc[i] = "recv"
    /\ IF chans[i - 1] # <<>>
       THEN LET out == Transform(i, Head(chans[i - 1])) IN
            /\ chans' = [chans EXCEPT ![i - 1] = Tail(@)]
            /\ IF out # <<>>
               THEN /\ stageItem' = [stageItem EXCEPT ![i] = [has |-> TRUE, item |-> out[1]]]
                    /\ stagePc' = [stagePc EXCEPT ![i] = "send"]
               ELSE UNCHANGED <<stageItem, stagePc>>
            /\ UNCHANGED txAlive
       ELSE /\ stagePc' = [stagePc EXCEPT ![i] = "finished"]
            /\ txAlive' = [txAlive EXCEPT ![i] = FALSE]
            /\ UNCHANGED <<chans, stageItem>>
    /\ UNCHANGED <<log_lines, fed, pipeMainPc, pipeJoined, collected>>
    /\ UNCHANGED notPipeVars

\* `for item in input { if let Some(result) = transform(item) {`: the next
\* item, or the end of the loop once the channel is empty and its Sender is
\* dropped; the thread then ends and drops output_tx.
StageRecv(i) ==
    /\ stagePc[i] = "recv"
    /\ \/ /\ chans[i - 1] # <<>>
          /\ LET out == Transform(i, Head(chans[i - 1])) IN
             /\ chans' = [chans EXCEPT ![i - 1] = Tail(@)]
             /\ IF out # <<>>
                THEN /\ stageItem' = [stageItem EXCEPT ![i] = [has |-> TRUE, item |-> out[1]]]
                     /\ stagePc' = [stagePc EXCEPT ![i] = "send"]
                ELSE UNCHANGED <<stageItem, stagePc>>
          /\ UNCHANGED txAlive
       \/ /\ chans[i - 1] = <<>>
          /\ ~txAlive[i - 1]
          /\ stagePc' = [stagePc EXCEPT ![i] = "finished"]
          /\ txAlive' = [txAlive EXCEPT ![i] = FALSE]
          /\ UNCHANGED <<chans, stageItem>>
    /\ UNCHANGED <<log_lines, fed, pipeMainPc, pipeJoined, collected>>
    /\ UNCHANGED notPipeVars

\* `if output_tx.send(result).is_err() { break; }`
StageSend(i) ==
    /\ stagePc[i] = "send"
    /\ stageItem' = [stageItem EXCEPT ![i] = NoItem]
    /\ IF RxAlive(i)
       THEN /\ chans' = [chans EXCEPT ![i] = Append(@, stageItem[i].item)]
            /\ stagePc' = [stagePc EXCEPT ![i] = "recv"]
            /\ UNCHANGED txAlive
       ELSE /\ stagePc' = [stagePc EXCEPT ![i] = "finished"]
            /\ txAlive' = [txAlive EXCEPT ![i] = FALSE]
            /\ UNCHANGED chans
    /\ UNCHANGED <<log_lines, fed, pipeMainPc, pipeJoined, collected>>
    /\ UNCHANGED notPipeVars

\* The collector: `for formatted in formatted_rx { println!(..); count += 1; }`
CollectorRecv ==
    /\ stagePc[Collector] = "recv"
    /\ \/ /\ chans[NumStages] # <<>>
          /\ collected' = Append(collected, Head(chans[NumStages]))
          /\ chans' = [chans EXCEPT ![NumStages] = Tail(@)]
          /\ UNCHANGED stagePc
       \/ /\ chans[NumStages] = <<>>
          /\ ~txAlive[NumStages]
          /\ stagePc' = [stagePc EXCEPT ![Collector] = "finished"]
          /\ UNCHANGED <<chans, collected>>
    /\ UNCHANGED <<log_lines, fed, pipeMainPc, pipeJoined, txAlive, stageItem>>
    /\ UNCHANGED notPipeVars

\* `for line in log_lines { input_tx.send(line.to_string()).unwrap(); }`
PipeFeed ==
    /\ pipeMainPc = "feed"
    /\ IF fed < NumLines
       THEN /\ chans' = [chans EXCEPT ![0] = Append(@, log_lines[fed + 1])]
            /\ fed' = fed + 1
            /\ UNCHANGED pipeMainPc
       ELSE /\ pipeMainPc' = "drop"
            /\ UNCHANGED <<chans, fed>>
    /\ UNCHANGED <<log_lines, pipeJoined, txAlive, stagePc, stageItem, collected>>
    /\ UNCHANGED notPipeVars

\* `drop(input_tx)`
PipeDrop ==
    /\ pipeMainPc = "drop"
    /\ txAlive' = [txAlive EXCEPT ![0] = FALSE]
    /\ pipeMainPc' = "join"
    /\ UNCHANGED <<log_lines, fed, pipeJoined, chans, stagePc, stageItem, collected>>
    /\ UNCHANGED notPipeVars

\* parse_handle.join(), filter_handle.join(), format_handle.join(), collector.join()
PipeJoin ==
    /\ pipeMainPc = "join"
    /\ stagePc[pipeJoined + 1] = "finished"
    /\ pipeJoined' = pipeJoined + 1
    /\ pipeMainPc' = IF pipeJoined + 1 = Collector THEN "done" ELSE "join"
    /\ UNCHANGED <<log_lines, fed, txAlive, chans, stagePc, stageItem, collected>>
    /\ UNCHANGED notPipeVars

StageStep(i) == StageRecv(i) \/ StageSend(i)
PipeMainStep == PipeFeed \/ PipeDrop \/ PipeJoin
PipeNext == (\E i \in Stages : StageStep(i)) \/ CollectorRecv \/ PipeMainStep

PipeSpecInit == EarlierIdle /\ ActorInit /\ OrderInit /\ RetryIdle /\ EditorInit /\ PipeInit
PipeSpec == PipeSpecInit /\ [][PipeNext]_vars
\* Every spawned thread and main keep being scheduled.
PipeFairness ==
    /\ \A i \in Stages : WF_pipeVars(StageStep(i))
    /\ WF_pipeVars(CollectorRecv)
    /\ WF_pipeVars(PipeMainStep)
PipeFairSpec == PipeSpec /\ PipeFairness

\* The items of a sequence that a stage's transform maps to Some, transformed,
\* in order.
RECURSIVE FilterMap(_, _)
FilterMap(i, xs) ==
    IF xs = <<>> THEN <<>>
    ELSE Transform(i, Head(xs)) \o FilterMap(i, Tail(xs))
\* What the lines lead to when they pass the three stages one after the other.
RECURSIVE ThroughStages(_, _)
ThroughStages(i, xs) ==
    IF i = 0 THEN xs ELSE FilterMap(i, ThroughStages(i - 1, xs))
ExpectedOutput == ThroughStages(NumStages, [k \in 1 .. NumLines |-> log_lines[k]])
IsPrefix(s, t) == Len(s) <= Len(t) /\ s = SubSeq(t, 1, Len(s))
PipeAllFinished == \A i \in 1 .. Collector : stagePc[i] = "finished"

\* C35: once main has dropped input_tx, every stage thread and the collector
\* end (and main's joins return); what the collector has received is always
\* a prefix of, and at its end equal to, the items for which every stage's
\* transform returned Some, in the order of the lines fed.
C35_PipelineDrains ==
    /\ (~txAlive[0]) ~> (PipeAllFinished /\ pipeMainPc = "done")
    /\ [](IsPrefix(collected, ExpectedOutput))
    /\ [](stagePc[Collector] = "finished" => collected = ExpectedOutput)
C35_Witness ==
    /\ pipeMainPc = "done"
    /\ PipeAllFinished
    /\ Len(collected) >= 1
    /\ Len(collected) < NumLines

====
